---- MODULE Spec2Model ----
(***************************************************************************)
(* A model of os.Root (src/src/os/root.go) and of the io/fs subtree        *)
(* wrapper subFS (src/src/io/fs/openfile.go).                              *)
(*                                                                         *)
(* Strings are sequences of one-character strings, so that the code's      *)
(* byte-wise scans (splitPathInRoot, ValidPath, shorten) are computed as   *)
(* the code computes them: "a/b" is <<"a", "/", "b">>.                     *)
(***************************************************************************)
EXTENDS Integers, Sequences, FiniteSets, TLC

VARIABLES
    link,       \* the symlinks of the tree: directory -> target text, or NoLink
    closed,     \* root.closed: Close has marked the root closed
    refs,       \* root.refs: operations holding a reference to the handle
    fdOpen,     \* the directory handle has not been released to the platform
    closeDone,  \* history: a Root.Close call has returned
    call,       \* per goroutine: the Root method call it is executing
    escaped,    \* history: a platform call touched a location outside the root
    staleUse,   \* history: a platform call was issued on a released handle
    budget,     \* moves left to the other actor that rewrites symlinks
    heap,       \* the subFS objects allocated so far: [fsys, dir] each
    cur,        \* the file system the caller holds: 0 the store, n the object heap[n]
    caps,       \* the optional interfaces the wrapped store implements
    subOut,     \* the last call on the file system held, and what it returned
    stored,     \* the symlinks the wrapped store holds: name -> target text
    split       \* the last call of splitPathInRoot and what it returned

rootVars == <<link, closed, refs, fdOpen, closeDone, call, escaped, staleUse, budget>>

subVars == <<heap, cur, caps, subOut, stored>>

vars == <<link, closed, refs, fdOpen, closeDone, call, escaped, staleUse, budget,
          heap, cur, caps, subOut, stored, split>>

----------------------------------------------------------------------------
(* Bounds of the model *)

\* moves of the actor that creates, retargets and removes symlinks
MaxRetarget == 2

----------------------------------------------------------------------------
(* Strings *)

Dot == <<".">>
DotDot == <<".", ".">>
Slash == <<"/">>
Empty == <<>>

Last(s) == s[Len(s)]
Front(s) == SubSeq(s, 1, Len(s) - 1)

\* os.IsPathSeparator on a non-Windows platform: PathSeparator is '/'
IsPathSeparator(c) == c = "/"

----------------------------------------------------------------------------
(* splitPathInRoot, root.go:301-351.  Indices i, j are the code's 0-based   *)
(* byte offsets; s[i:j] is SubSeq(s, i+1, j).                              *)

errPathEscapes == "path escapes from parent"
errEmptyPath == "empty path"

RECURSIVE skipSeparators(_, _)
skipSeparators(s, j) ==
    IF j < Len(s) /\ IsPathSeparator(s[j + 1]) THEN skipSeparators(s, j + 1) ELSE j

\* the loop of splitPathInRoot without the removal of "." components
RECURSIVE splitLoopKeepsDot(_, _, _, _)
splitLoopKeepsDot(s, parts, i, j) ==
    IF j < Len(s) /\ ~IsPathSeparator(s[j + 1])
    THEN splitLoopKeepsDot(s, parts, i, j + 1)
    ELSE LET parts1 == Append(parts, SubSeq(s, i + 1, j))
             partEnd == j
             j2 == skipSeparators(s, j)
         IN  IF j2 = Len(s)
             THEN [parts |-> parts1, suffixSep |-> SubSeq(s, partEnd + 1, Len(s))]
             ELSE splitLoopKeepsDot(s, parts1, j2, j2)

RECURSIVE splitLoop(_, _, _, _)
splitLoop(s, parts, i, j) ==
    IF j < Len(s) /\ ~IsPathSeparator(s[j + 1])
    THEN splitLoop(s, parts, i, j + 1)
    ELSE LET parts1 == Append(parts, SubSeq(s, i + 1, j))
             partEnd == j
             j2 == skipSeparators(s, j)
         IN  IF j2 = Len(s)
             THEN [parts |-> parts1, suffixSep |-> SubSeq(s, partEnd + 1, Len(s))]
             ELSE LET parts2 == IF Last(parts1) = Dot THEN Front(parts1) ELSE parts1
                  IN  splitLoop(s, parts2, j2, j2)

\* splitPathInRoot without the test for a leading separator
splitPathInRootNoEscapeTest(s, prefix, suffix) ==
    IF Len(s) = 0 THEN [parts |-> <<>>, suffixSep |-> Empty, err |-> errEmptyPath]
    ELSE LET r == splitLoop(s, prefix, 0, 1)
             parts3 == IF Len(suffix) > 0 /\ Len(r.parts) > 0 /\ Last(r.parts) = Dot
                       THEN Front(r.parts) ELSE r.parts
         IN  [parts |-> parts3 \o suffix, suffixSep |-> r.suffixSep, err |-> ""]

splitPathInRoot(s, prefix, suffix) ==
    IF Len(s) = 0 THEN [parts |-> <<>>, suffixSep |-> Empty, err |-> errEmptyPath]
    ELSE IF IsPathSeparator(s[1])
    THEN [parts |-> <<>>, suffixSep |-> Empty, err |-> errPathEscapes]
    ELSE LET r == splitLoop(s, prefix, 0, 1)
             parts3 == IF Len(suffix) > 0 /\ Len(r.parts) > 0 /\ Last(r.parts) = Dot
                       THEN Front(r.parts) ELSE r.parts
         IN  [parts |-> parts3 \o suffix, suffixSep |-> r.suffixSep, err |-> ""]

\* longest name given to splitPathInRoot
MaxLen == 4

A_abc == <<"a", "/", "b", "/", "c">>
A_aDotbc == <<"a", "/", ".", "/", "b", "/", "c">>

\* the names given to splitPathInRoot: every text of a, "." and "/" up to
\* MaxLen characters, and the two names of the example
SplitNames ==
    UNION {[1..n -> {"a", ".", "/"}] : n \in 0..MaxLen} \cup {A_abc, A_aDotbc}

SplitPrefixes == {<<>>, <<<<"p">>>>}
SplitSuffixes == {<<>>, <<<<"q">>>>, <<<<"q">>, <<"r">>>>}

NoSplit == [called |-> FALSE, s |-> Empty, prefix |-> <<>>, suffix |-> <<>>,
            parts |-> <<>>, suffixSep |-> Empty, err |-> ""]

\* splitPathInRoot(s, prefix, suffix) is called and returns
Split(s, prefix, suffix) ==
    /\ ~split.called
    /\ LET r == splitPathInRoot(s, prefix, suffix)
       IN  split' = [called |-> TRUE, s |-> s, prefix |-> prefix, suffix |-> suffix,
                     parts |-> r.parts, suffixSep |-> r.suffixSep, err |-> r.err]
    /\ UNCHANGED <<rootVars, subVars>>

\* the caller has taken the result
SplitReturn ==
    /\ split.called
    /\ split' = NoSplit
    /\ UNCHANGED <<rootVars, subVars>>

----------------------------------------------------------------------------
(* Inputs of the Root methods *)

P_a == <<"a">>
P_l == <<"l">>
P_ab == <<"a", "/", "b">>
P_lb == <<"l", "/", "b">>
P_al == <<"a", "/", "l">>
P_abs == <<"/", "e">>
P_up == <<".", ".", "/", "e">>
P_aSlash == <<"a", "/">>
P_upl == <<".", ".", "/", "l">>

\* names passed to the methods of a Root
Names == {Empty, P_abs, P_up, P_ab, P_l, P_lb, P_al, P_aSlash}

\* second names of Rename and Link
NewNames == {P_l, P_al, P_abs}

\* "no symlink here"
NoLink == <<"-">>

\* the texts a symlink of the tree may hold
Targets == {P_abs, DotDot, P_l, P_a, P_upl}

\* FileMode values: 0o644, 0o777, 0o1000, ModeSymlink|0o777
Perms == {420, 511, 512, 134218239}

FlagSets == {{"O_RDONLY"}, {"O_RDWR", "O_CREATE"}}

\* the inputs of two goroutines that use the Root at the same time
ConcOps == {"Open", "Lstat", "Remove"}
ConcNames == {P_lb, P_al}

Procs == {"g1", "g2"}

----------------------------------------------------------------------------
(* The methods of Root, root.go:94-274: what each does before it hands the *)
(* name to the resolver.                                                  *)

\* a limit one symlink too high
rootMaxSymlinksOffByOne == 8 + 1

\* Maximum number of symbolic links followed when resolving a file in a root
rootMaxSymlinks == 8

RECURSIVE BitAnd(_, _)
BitAnd(x, y) ==
    IF x = 0 \/ y = 0 THEN 0
    ELSE (x % 2) * (y % 2) + 2 * BitAnd(x \div 2, y \div 2)

NoResult == [Op |-> "", Path |-> Empty, Err |-> "none"]
Success == [Op |-> "", Path |-> Empty, Err |-> "ok"]
PathError(op, path, err) == [Op |-> op, Path |-> path, Err |-> err]

errUnsupportedMode == "unsupported file mode"
ErrClosed == "file already closed"
ELOOP == "too many levels of symbolic links"

\* the Root method returns at once with ret
Return(method, ret) ==
    [root |-> method, ret |-> ret, fn |-> "", log |-> "", names |-> <<>>,
     target |-> Empty, flag |-> {}, perm |-> 0]

\* the Root method logs (testlog) and calls the internal function fn
Forward(method, fn, log, names, target, flag, perm) ==
    [root |-> method, ret |-> NoResult, fn |-> fn, log |-> log, names |-> names,
     target |-> target, flag |-> flag, perm |-> perm]

RootOpenFile(name, flag, perm) ==
    IF BitAnd(perm, 511) # perm
    THEN Return("OpenFile", PathError("openat", name, errUnsupportedMode))
    ELSE Forward("OpenFile", "rootOpenFileNolog", "open", <<name>>, Empty, flag, perm)

RootOpen(name) == RootOpenFile(name, {"O_RDONLY"}, 0)

RootCreate(name) == RootOpenFile(name, {"O_RDWR", "O_CREATE", "O_TRUNC"}, 438)

RootOpenRoot(name) == Forward("OpenRoot", "openRootInRoot", "open", <<name>>, Empty, {}, 0)

RootChmod(name) == Forward("Chmod", "rootChmod", "", <<name>>, Empty, {}, 0)

RootMkdir(name, perm) ==
    IF BitAnd(perm, 511) # perm
    THEN Return("Mkdir", PathError("mkdirat", name, errUnsupportedMode))
    ELSE Forward("Mkdir", "rootMkdir", "", <<name>>, Empty, {}, perm)

\* MkdirAll without the test of perm
RootMkdirAllAnyPerm(name, perm) == Forward("MkdirAll", "rootMkdirAll", "", <<name>>, Empty, {}, perm)

RootMkdirAll(name, perm) ==
    IF BitAnd(perm, 511) # perm
    THEN Return("MkdirAll", PathError("mkdirat", name, errUnsupportedMode))
    ELSE Forward("MkdirAll", "rootMkdirAll", "", <<name>>, Empty, {}, perm)

RootChown(name) == Forward("Chown", "rootChown", "", <<name>>, Empty, {}, 0)

RootLchown(name) == Forward("Lchown", "rootLchown", "", <<name>>, Empty, {}, 0)

RootChtimes(name) == Forward("Chtimes", "rootChtimes", "", <<name>>, Empty, {}, 0)

RootRemove(name) == Forward("Remove", "rootRemove", "", <<name>>, Empty, {}, 0)

RootRemoveAll(name) == Forward("RemoveAll", "rootRemoveAll", "", <<name>>, Empty, {}, 0)

RootStat(name) == Forward("Stat", "rootStat", "stat", <<name>>, Empty, {}, 0)

RootLstat(name) == Forward("Lstat", "rootLstat", "stat", <<name>>, Empty, {}, 0)

RootReadlink(name) == Forward("Readlink", "rootReadlink", "", <<name>>, Empty, {}, 0)

RootRename(oldname, newname) ==
    Forward("Rename", "rootRename", "", <<oldname, newname>>, Empty, {}, 0)

RootLink(oldname, newname) ==
    Forward("Link", "rootLink", "", <<oldname, newname>>, Empty, {}, 0)

\* Symlink does not validate oldname: it is the text of the new link
RootSymlink(oldname, newname) ==
    Forward("Symlink", "rootSymlink", "", <<newname>>, oldname, {}, 0)

\* ReadFile opens the file with r.Open; when that fails its error is returned
RootReadFile(name) == RootOpen(name)

\* ReadFile once r.Open has returned f: the contents are read to the end, the
\* error of the read is returned and that of the deferred f.Close is dropped
RootReadFileContents(readErr, closeErr) == readErr

\* ReadFile of the file system of a Root, once r.Open has returned f: as above
rootFS_ReadFileContents(readErr, closeErr) == readErr

\* WriteFile opens the file with r.OpenFile; when that fails its error is returned
RootWriteFile(name, perm) == RootOpenFile(name, {"O_WRONLY", "O_CREATE", "O_TRUNC"}, perm)

\* WriteFile once r.OpenFile has returned f: the error of f.Write, or else
\* that of f.Close
RootWriteFileData(writeErr, closeErr) ==
    IF writeErr = Success THEN closeErr ELSE writeErr

NameOps == {"Open", "Create", "OpenRoot", "Chmod", "Chown", "Lchown", "Chtimes",
            "Remove", "RemoveAll", "Stat", "Lstat", "Readlink", "ReadFile"}
PermOps == {"Mkdir", "MkdirAll", "WriteFile"}
TwoNameOps == {"Rename", "Link"}

NameMethod(op, name) ==
    CASE op = "Open" -> RootOpen(name)
      [] op = "Create" -> RootCreate(name)
      [] op = "OpenRoot" -> RootOpenRoot(name)
      [] op = "Chmod" -> RootChmod(name)
      [] op = "Chown" -> RootChown(name)
      [] op = "Lchown" -> RootLchown(name)
      [] op = "Chtimes" -> RootChtimes(name)
      [] op = "Remove" -> RootRemove(name)
      [] op = "RemoveAll" -> RootRemoveAll(name)
      [] op = "Stat" -> RootStat(name)
      [] op = "Lstat" -> RootLstat(name)
      [] op = "Readlink" -> RootReadlink(name)
      [] op = "ReadFile" -> RootReadFile(name)

PermMethod(op, name, perm) ==
    CASE op = "Mkdir" -> RootMkdir(name, perm)
      [] op = "MkdirAll" -> RootMkdirAll(name, perm)
      [] op = "WriteFile" -> RootWriteFile(name, perm)

TwoNameMethod(op, oldname, newname) ==
    CASE op = "Rename" -> RootRename(oldname, newname)
      [] op = "Link" -> RootLink(oldname, newname)

----------------------------------------------------------------------------
(* The platform below the root handle.  The tree: the root directory holds *)
(* the directory a and the name l; a holds the file b and a name l of its  *)
(* own.  Each l is a symlink or absent; the directories and the file are   *)
(* fixed, and only the two l entries can be written.  "out" stands for     *)
(* every location outside the root's subtree.                              *)

Dirs == {"root", "a"}

Parent(dir) == IF dir = "a" THEN "root" ELSE "out"

\* what the single path component comp names in directory dir
Lookup(dir, comp) ==
    IF comp[1] = "/" THEN [kind |-> "dir", node |-> "out"]
    ELSE IF comp = DotDot THEN [kind |-> "dir", node |-> Parent(dir)]
    ELSE IF comp = Dot THEN [kind |-> "dir", node |-> dir]
    ELSE IF dir = "out" THEN [kind |-> "file", node |-> "out"]
    ELSE IF comp = P_l
    THEN IF link[dir] = NoLink THEN [kind |-> "none", node |-> dir]
         ELSE [kind |-> "symlink", node |-> dir]
    ELSE IF dir = "root" /\ comp = P_a THEN [kind |-> "dir", node |-> "a"]
    ELSE IF dir = "a" /\ comp = <<"b">> THEN [kind |-> "file", node |-> "a"]
    ELSE [kind |-> "none", node |-> dir]

\* the platform call touches a location outside the root's subtree
Outside(dir, comp) == dir = "out" \/ Lookup(dir, comp).node = "out"

\* internal functions whose last step follows a symlink in the last component
Follows == {"rootOpenFileNolog", "openRootInRoot", "rootChmod", "rootChown",
            "rootChtimes", "rootStat", "rootMkdirAll"}
Creates(fn, flag) ==
    \/ fn \in {"rootMkdir", "rootMkdirAll", "rootSymlink", "rootLink", "rootRename"}
    \/ fn = "rootOpenFileNolog" /\ "O_CREATE" \in flag
Exclusive == {"rootMkdir", "rootSymlink", "rootLink"}
Removes == {"rootRemove", "rootRemoveAll"}

\* the errno of the directory-relative call on the last component
LeafErr(fn, flag, r, comp, sfx) ==
    IF r.kind = "none"
    THEN IF Creates(fn, flag)
         THEN (IF fn = "rootSymlink" /\ comp = P_l THEN "ok" ELSE "EACCES")
         ELSE "ENOENT"
    ELSE IF sfx # Empty /\ r.kind # "dir" THEN "ENOTDIR"
    ELSE IF fn \in Exclusive THEN "EEXIST"
    ELSE IF fn = "rootRename" THEN "EACCES"
    ELSE IF fn \in Removes THEN (IF r.kind = "symlink" THEN "ok" ELSE "EACCES")
    ELSE IF fn = "openRootInRoot" /\ r.kind # "dir" THEN "ENOTDIR"
    ELSE IF /\ fn = "rootOpenFileNolog"
            /\ r.kind = "dir"
            /\ flag \cap {"O_WRONLY", "O_RDWR", "O_CREATE"} # {}
    THEN "EISDIR"
    ELSE IF fn = "rootReadlink" /\ r.kind # "symlink" THEN "EINVAL"
    ELSE "ok"

\* the symlinks after the call on the last component
LeafEffect(fn, flag, dir, r, comp, sfx, target) ==
    IF dir \notin Dirs \/ LeafErr(fn, flag, r, comp, sfx) # "ok" THEN link
    ELSE IF fn = "rootSymlink" THEN [link EXCEPT ![dir] = target]
    ELSE IF fn \in Removes THEN [link EXCEPT ![dir] = NoLink]
    ELSE link

----------------------------------------------------------------------------
(* A call of a Root method by goroutine p *)

Idle ==
    [pc |-> "idle", fs |-> "", op |-> "", args |-> <<>>, root |-> "", names |-> <<>>,
     k |-> 0,
     target |-> Empty, flag |-> {},
     perm |-> 0, fn |-> "", log |-> "", afterClose |-> FALSE, touched |-> FALSE,
     parts |-> <<>>, i |-> 0, dirfd |-> "root", symlinks |-> 0, suffixSep |-> Empty,
     result |-> NoResult, raw |-> <<>>, dirs |-> <<>>, kind |-> ""]

\* where a call goes when the method of the Root that it made has returned
\* a file: ReadDir and ReadFile go on to read it, WriteFile to write it
AfterOpen(c) ==
    IF c.fs = "ReadDir" THEN "readdir"
    ELSE IF c.fs = "ReadFile" \/ (c.fs = "" /\ c.op = "ReadFile") THEN "readfile"
    ELSE IF c.fs = "" /\ c.op = "WriteFile" THEN "writefile"
    ELSE "done"

\* the steps at which the internal function has returned
Returned == {"done", "readdir", "readfile", "writefile"}

\* the internal function has returned result
Finished(c, result) ==
    [c EXCEPT !.pc = IF result = Success THEN AfterOpen(c) ELSE "done",
              !.result = result, !.parts = <<>>, !.i = 0,
              !.dirfd = "root", !.suffixSep = Empty]

\* the platform call on the last component succeeded on a node of this kind;
\* a call that goes on to read the file keeps the kind
Opened(c, kind) ==
    LET d == Finished(c, Success)
    IN  IF d.pc = "readfile" THEN [d EXCEPT !.kind = kind] ELSE d

\* the call as the method leaves it to the resolver, or as it returned
Started(op, arg, plan) ==
    IF plan.ret # NoResult
    THEN Finished([Idle EXCEPT !.op = op, !.args = arg, !.root = plan.root,
                               !.perm = plan.perm, !.afterClose = closeDone], plan.ret)
    ELSE [Idle EXCEPT !.pc = "enter", !.op = op, !.args = arg, !.root = plan.root,
                      !.names = plan.names, !.k = 1,
                      !.target = plan.target, !.flag = plan.flag, !.perm = plan.perm,
                      !.fn = plan.fn, !.log = plan.log, !.afterClose = closeDone]

rootFrame ==
    UNCHANGED <<link, closed, refs, fdOpen, closeDone, escaped, staleUse, budget, subVars, split>>

BeginName(p, ops, names) ==
    /\ call[p].pc = "idle"
    /\ \E op \in ops, name \in names :
           call' = [call EXCEPT ![p] = Started(op, <<name>>, NameMethod(op, name))]
    /\ rootFrame

BeginPerm(p, ops, names) ==
    /\ call[p].pc = "idle"
    /\ \E op \in ops, name \in names, perm \in Perms :
           call' = [call EXCEPT ![p] =
                       [Started(op, <<name>>, PermMethod(op, name, perm)) EXCEPT !.perm = perm]]
    /\ rootFrame

BeginOpenFile(p, names) ==
    /\ call[p].pc = "idle"
    /\ \E name \in names, flag \in FlagSets, perm \in Perms :
           call' = [call EXCEPT ![p] =
                       [Started("OpenFile", <<name>>, RootOpenFile(name, flag, perm))
                            EXCEPT !.perm = perm]]
    /\ rootFrame

BeginTwoNames(p, ops, names) ==
    /\ call[p].pc = "idle"
    /\ \E op \in ops, oldname \in names, newname \in NewNames :
           call' = [call EXCEPT ![p] =
                       Started(op, <<oldname, newname>>, TwoNameMethod(op, oldname, newname))]
    /\ rootFrame

BeginSymlink(p, names) ==
    /\ call[p].pc = "idle"
    /\ \E oldname \in Targets, newname \in names :
           call' = [call EXCEPT ![p] =
                       Started("Symlink", <<oldname, newname>>, RootSymlink(oldname, newname))]
    /\ rootFrame

\* the caller takes the result
Done(p) ==
    /\ call[p].pc = "done"
    /\ call' = [call EXCEPT ![p] = Idle]
    /\ rootFrame

\* what File.Read returns at the end of the contents of the file of call c:
\* a directory is not read, and a read may fail
ReadErrs(c) ==
    IF c.kind = "dir" THEN {PathError("read", c.names[1], "EISDIR")}
    ELSE {Success, PathError("read", c.names[1], "EIO")}

\* what File.Write returns
WriteErrs(c) == {Success, PathError("write", c.names[1], "ENOSPC")}

\* what File.Close returns
CloseErrs(c) == {Success, PathError("close", c.names[1], "EIO")}

\* ReadFile of the Root or of its file system reads the file it opened and closes it
ReadFileContents(p) ==
    /\ call[p].pc = "readfile"
    /\ \E readErr \in ReadErrs(call[p]), closeErr \in CloseErrs(call[p]) :
           call' = [call EXCEPT ![p] =
                       [@ EXCEPT !.pc = "done", !.kind = "",
                                 !.result = IF call[p].fs = "ReadFile"
                                            THEN rootFS_ReadFileContents(readErr, closeErr)
                                            ELSE RootReadFileContents(readErr, closeErr)]]
    /\ rootFrame

\* WriteFile writes the file it opened and closes it
WriteFileData(p) ==
    /\ call[p].pc = "writefile"
    /\ \E writeErr \in WriteErrs(call[p]), closeErr \in CloseErrs(call[p]) :
           call' = [call EXCEPT ![p] =
                       [@ EXCEPT !.pc = "done",
                                 !.result = RootWriteFileData(writeErr, closeErr)]]
    /\ rootFrame

----------------------------------------------------------------------------
(* The resolver: every internal function increments the handle's reference *)
(* count, splits the name, and walks the components from the root handle   *)
(* with one directory-relative platform call per component.                *)

\* a step of goroutine p ends: root.decref releases a closed, unreferenced handle
Settle(p, c2, called, out, link2) ==
    /\ call' = [call EXCEPT ![p] = c2]
    /\ link' = link2
    /\ refs' = IF c2.pc \in Returned THEN refs - 1 ELSE refs
    /\ fdOpen' = IF c2.pc \in Returned /\ closed /\ refs = 1 THEN FALSE ELSE fdOpen
    /\ escaped' = (escaped \/ out)
    /\ staleUse' = (staleUse \/ (called /\ ~fdOpen))
    /\ UNCHANGED <<closed, closeDone, budget, subVars, split>>

\* root.incref, then splitPathInRoot(name, nil, nil)
Enter(p) ==
    /\ call[p].pc = "enter"
    /\ LET c == call[p]
           held == c.k > 1
           name == c.names[c.k]
           s == splitPathInRoot(name, <<>>, <<>>)
           c2 == IF closed THEN Finished(c, PathError("", Empty, ErrClosed))
                 ELSE IF s.err # "" THEN Finished(c, PathError("", name, s.err))
                 ELSE [c EXCEPT !.pc = "resolve", !.parts = s.parts,
                                !.suffixSep = s.suffixSep, !.i = 0, !.dirfd = "root",
                                !.symlinks = 0]
       IN  /\ call' = [call EXCEPT ![p] = c2]
           /\ refs' = IF c2.pc = "done" THEN (IF held THEN refs - 1 ELSE refs)
                      ELSE (IF held THEN refs ELSE refs + 1)
           /\ fdOpen' = IF c2.pc = "done" /\ held /\ closed /\ refs = 1 THEN FALSE
                        ELSE fdOpen
    /\ UNCHANGED <<link, closed, closeDone, escaped, staleUse, budget, subVars, split>>

\* the component at i is a symlink holding target
FollowSymlink(c, target) ==
    LET n == c.symlinks + 1
        name == c.names[c.k]
        last == c.i = Len(c.parts) - 1
        s == splitPathInRoot(target, SubSeq(c.parts, 1, c.i),
                             SubSeq(c.parts, c.i + 2, Len(c.parts)))
        restart == \/ Len(s.parts) < c.i
                   \/ SubSeq(s.parts, 1, c.i) # SubSeq(c.parts, 1, c.i)
    IN  IF n > rootMaxSymlinks
        THEN Finished([c EXCEPT !.symlinks = n], PathError("", name, ELOOP))
        ELSE IF s.err # ""
        THEN Finished([c EXCEPT !.symlinks = n], PathError("", name, s.err))
        ELSE [c EXCEPT !.symlinks = n, !.parts = s.parts,
                       !.suffixSep = IF last THEN s.suffixSep ELSE @,
                       !.i = IF restart THEN 0 ELSE @,
                       !.dirfd = IF restart THEN "root" ELSE @]

RECURSIVE dotDotEnd(_, _)
dotDotEnd(parts, end) ==
    IF end < Len(parts) /\ parts[end + 1] = DotDot THEN dotDotEnd(parts, end + 1) ELSE end

\* parts[i] is "..": drop it with the components it cancels and restart at the root
ResolveDotDot(p) ==
    /\ call[p].pc = "resolve"
    /\ call[p].parts[call[p].i + 1] = DotDot
    /\ LET c == call[p]
           end == dotDotEnd(c.parts, c.i + 1)
           count == end - c.i
           rest == SubSeq(c.parts, 1, c.i - count) \o SubSeq(c.parts, end + 1, Len(c.parts))
           c2 == IF count > c.i
                 THEN Finished(c, PathError("", c.names[c.k], errPathEscapes))
                 ELSE [c EXCEPT !.parts = IF rest = <<>> THEN <<Dot>> ELSE rest,
                                !.i = 0, !.dirfd = "root"]
       IN  Settle(p, c2, FALSE, FALSE, link)

\* parts[i] is not the last component: open it as a directory
ResolveDir(p) ==
    /\ call[p].pc = "resolve"
    /\ call[p].parts[call[p].i + 1] # DotDot
    /\ call[p].i < Len(call[p].parts) - 1
    /\ LET c == [call[p] EXCEPT !.touched = TRUE]
           comp == c.parts[c.i + 1]
           r == Lookup(c.dirfd, comp)
           c2 == CASE r.kind = "dir" -> [c EXCEPT !.dirfd = r.node, !.i = @ + 1]
                   [] r.kind = "symlink" -> FollowSymlink(c, link[c.dirfd])
                   [] r.kind = "file" -> Finished(c, PathError("openat", c.names[c.k], "ENOTDIR"))
                   [] r.kind = "none" -> Finished(c, PathError("openat", c.names[c.k], "ENOENT"))
       IN  Settle(p, c2, TRUE, Outside(c.dirfd, comp), link)

\* parts[i] is the last component of the first name of Rename or Link:
\* its parent is kept and the second name is resolved
NextName(p) ==
    /\ call[p].pc = "resolve"
    /\ call[p].parts[call[p].i + 1] # DotDot
    /\ call[p].i = Len(call[p].parts) - 1
    /\ call[p].k < Len(call[p].names)
    /\ LET c == call[p]
           c2 == [c EXCEPT !.pc = "enter", !.k = @ + 1, !.parts = <<>>, !.i = 0,
                           !.dirfd = "root", !.suffixSep = Empty, !.symlinks = 0]
       IN  Settle(p, c2, FALSE, FALSE, link)

\* parts[i] is the last component: the operation's own platform call
ResolveLast(p) ==
    /\ call[p].pc = "resolve"
    /\ call[p].parts[call[p].i + 1] # DotDot
    /\ call[p].i = Len(call[p].parts) - 1
    /\ call[p].k = Len(call[p].names)
    /\ LET c == [call[p] EXCEPT !.touched = TRUE]
           comp == c.parts[c.i + 1]
           r == Lookup(c.dirfd, comp)
           e == LeafErr(c.fn, c.flag, r, comp, c.suffixSep)
           follow == r.kind = "symlink" /\ (c.fn \in Follows \/ c.suffixSep # Empty)
           c2 == IF follow THEN FollowSymlink(c, link[c.dirfd])
                 ELSE IF e = "ok" THEN Opened(c, r.kind)
                 ELSE Finished(c, PathError(c.fn, c.names[c.k], e))
           link2 == IF follow THEN link
                    ELSE LeafEffect(c.fn, c.flag, c.dirfd, r, comp, c.suffixSep, c.target)
       IN  Settle(p, c2, TRUE, Outside(c.dirfd, comp), link2)

\* root.Close: mark the root closed; release the handle when nothing holds it
rootClose ==
    /\ closed' = TRUE
    /\ fdOpen' = IF ~closed /\ refs = 0 THEN FALSE ELSE fdOpen

\* a Close that returns without closing the root
RootCloseForgets ==
    /\ closeDone' = TRUE
    /\ UNCHANGED <<link, closed, refs, fdOpen, call, escaped, staleUse, budget, subVars, split>>

\* a Close that releases the handle while operations still hold it
RootCloseReleases ==
    /\ closed' = TRUE
    /\ fdOpen' = FALSE
    /\ closeDone' = TRUE
    /\ UNCHANGED <<link, refs, call, escaped, staleUse, budget, subVars, split>>

\* Root.Close, root.go:96-98
RootClose ==
    /\ rootClose
    /\ closeDone' = TRUE
    /\ UNCHANGED <<link, refs, call, escaped, staleUse, budget, subVars, split>>

\* another actor creates, retargets or removes a symlink of the tree
Retarget(d, t) ==
    /\ budget > 0
    /\ t # link[d]
    /\ link' = [link EXCEPT ![d] = t]
    /\ budget' = budget - 1
    /\ UNCHANGED <<closed, refs, fdOpen, closeDone, call, escaped, staleUse, subVars, split>>

----------------------------------------------------------------------------
(* io/fs: the errors and the test of a name that the file systems share *)

ErrInvalid == "invalid argument"

LinkError(op, old, new, err) == [Op |-> op, Old |-> old, New |-> new, Err |-> err]

\* the end of the path element that starts at offset i
RECURSIVE elemEnd(_, _)
elemEnd(name, i) ==
    IF i < Len(name) /\ name[i + 1] # "/" THEN elemEnd(name, i + 1) ELSE i

\* io/fs.ValidPath: "." or slash-separated elements, none empty, "." or ".."
RECURSIVE validElems(_)
validElems(name) ==
    LET i == elemEnd(name, 0)
        elem == SubSeq(name, 1, i)
    IN  IF elem = Empty \/ elem = Dot \/ elem = DotDot THEN FALSE
        ELSE IF i = Len(name) THEN TRUE
        ELSE validElems(SubSeq(name, i + 2, Len(name)))

ValidPath(name) == IF name = Dot THEN TRUE ELSE validElems(name)

----------------------------------------------------------------------------
(* io/fs: Sub and subFS, openfile.go:122-387.  A subFS is a wrapped store  *)
(* fsys and a prefix dir.  The wrapped store answers a call with success   *)
(* or with one of a few errors; the calls it receives are recorded.        *)

\* subFS objects that may be allocated
MaxObjects == 2

\* symlinks the wrapped store may hold
MaxLinks == 1

Nil == [Op |-> "", Path |-> Empty, Err |-> "nil"]

IsPathError(err) == err # Nil /\ "Path" \in DOMAIN err

\* path.Clean of a relative path, on its elements: "." and empty elements
\* are dropped and ".." cancels the element before it
RECURSIVE cleanElems(_, _)
cleanElems(name, out) ==
    IF name = Empty THEN out
    ELSE LET i == elemEnd(name, 0)
             elem == SubSeq(name, 1, i)
             rest == SubSeq(name, i + 2, Len(name))
             out2 == IF elem = Empty \/ elem = Dot THEN out
                     ELSE IF elem = DotDot /\ out # <<>> /\ Last(out) # DotDot
                     THEN Front(out)
                     ELSE Append(out, elem)
         IN  cleanElems(rest, out2)

RECURSIVE joinElems(_)
joinElems(elems) ==
    IF elems = <<>> THEN Dot
    ELSE IF Len(elems) = 1 THEN elems[1]
    ELSE elems[1] \o Slash \o joinElems(Tail(elems))

\* path.Join(dir, name) for relative dir
pathJoin(dir, name) ==
    IF dir = Empty /\ name = Empty THEN Empty
    ELSE joinElems(cleanElems(dir \o Slash \o name, <<>>))

\* the store is called: op with names, and answers as r says
StoreReply(r, op, names) ==
    CASE r = "ok" -> Nil
      [] r = "errOld" -> PathError(op, names[1], "ENOENT")
      [] r = "errNew" -> PathError(op, names[Len(names)], "ENOENT")
      [] r = "errForeign" -> PathError(op, <<"q">>, "ENOENT")
      [] r = "linkErr" -> LinkError(op, names[1], names[Len(names)], "ENOENT")

Replies == {"ok", "errOld", "errNew", "errForeign", "linkErr"}

\* the functions of io/fs that pass a call to a store implementing op
StoreCall(op, names, r) ==
    [calls |-> <<[op |-> op, names |-> names]>>, err |-> StoreReply(r, op, names)]

\* fs.OpenFile, openfile.go:79-85
OpenFile(name, r) ==
    IF "OpenFileFS" \notin caps
    THEN [calls |-> <<>>, err |-> PathError("openfile", name, ErrInvalid)]
    ELSE StoreCall("OpenFile", <<name>>, r)

\* what a method of subFS did: the calls to the store, the store's error,
\* and the error returned to the caller
Failed(err) == [calls |-> <<>>, storeErr |-> Nil, err |-> err]

fullName(f, op, name) ==
    IF ~ValidPath(name) THEN [full |-> Empty, err |-> PathError(op, name, ErrInvalid)]
    ELSE [full |-> pathJoin(f.dir, name), err |-> Nil]

\* shorten that does not look for the separator after the prefix
shortenNoSeparatorTest(f, name) ==
    IF name = f.dir THEN [rel |-> Dot, ok |-> TRUE]
    ELSE IF Len(name) >= Len(f.dir) + 2 /\ SubSeq(name, 1, Len(f.dir)) = f.dir
    THEN [rel |-> SubSeq(name, Len(f.dir) + 2, Len(name)), ok |-> TRUE]
    ELSE [rel |-> Empty, ok |-> FALSE]

shorten(f, name) ==
    IF name = f.dir THEN [rel |-> Dot, ok |-> TRUE]
    ELSE IF /\ Len(name) >= Len(f.dir) + 2
            /\ name[Len(f.dir) + 1] = "/"
            /\ SubSeq(name, 1, Len(f.dir)) = f.dir
    THEN [rel |-> SubSeq(name, Len(f.dir) + 2, Len(name)), ok |-> TRUE]
    ELSE [rel |-> Empty, ok |-> FALSE]

fixErr(f, err) ==
    IF IsPathError(err) /\ shorten(f, err.Path).ok
    THEN [err EXCEPT !.Path = shorten(f, err.Path).rel]
    ELSE err

\* return f.fixErr(err) after the call s
Fixed(f, s) == [calls |-> s.calls, storeErr |-> s.err, err |-> fixErr(f, s.err)]

\* return err as the store gave it
Unfixed(s) == [calls |-> s.calls, storeErr |-> s.err, err |-> s.err]

subFS_Open(f, name, r) ==
    LET n == fullName(f, "open", name) IN
    IF n.err # Nil THEN Failed(n.err) ELSE Fixed(f, StoreCall("Open", <<n.full>>, r))

subFS_OpenFile(f, name, r) ==
    LET n == fullName(f, "openfile", name) IN
    IF n.err # Nil THEN Failed(n.err) ELSE Fixed(f, OpenFile(n.full, r))

subFS_Create(f, name, r) ==
    LET n == fullName(f, "create", name) IN
    IF n.err # Nil THEN Failed(n.err) ELSE Fixed(f, StoreCall("Create", <<n.full>>, r))

subFS_Stat(f, name, r) ==
    LET n == fullName(f, "read", name) IN
    IF n.err # Nil THEN Failed(n.err) ELSE Unfixed(StoreCall("Stat", <<n.full>>, r))

subFS_ReadDir(f, name, r) ==
    LET n == fullName(f, "read", name) IN
    IF n.err # Nil THEN Failed(n.err) ELSE Fixed(f, StoreCall("ReadDir", <<n.full>>, r))

subFS_ReadFile(f, name, r) ==
    LET n == fullName(f, "read", name) IN
    IF n.err # Nil THEN Failed(n.err) ELSE Fixed(f, StoreCall("ReadFile", <<n.full>>, r))

\* the text ReadLink(f.fsys, full) returns: that of the link the store
\* holds, or of a link made by others
StoreTarget(full) == IF full \in DOMAIN stored THEN stored[full].target ELSE <<"t">>

subFS_ReadLink(f, name, r) ==
    LET n == fullName(f, "readlink", name)
        s == StoreCall("ReadLink", <<n.full>>, r)
    IN  IF n.err # Nil THEN [calls |-> <<>>, storeErr |-> Nil, err |-> n.err, target |-> Empty]
        ELSE IF s.err # Nil
        THEN [calls |-> s.calls, storeErr |-> s.err, err |-> fixErr(f, s.err), target |-> Empty]
        ELSE [calls |-> s.calls, storeErr |-> Nil, err |-> Nil, target |-> StoreTarget(n.full)]

subFS_Lstat(f, name, r) ==
    LET n == fullName(f, "lstat", name) IN
    IF n.err # Nil THEN Failed(n.err) ELSE Fixed(f, StoreCall("Lstat", <<n.full>>, r))

subFS_Mkdir(f, name, r) ==
    LET n == fullName(f, "mkdir", name) IN
    IF n.err # Nil THEN Failed(n.err) ELSE Fixed(f, StoreCall("Mkdir", <<n.full>>, r))

subFS_MkdirAll(f, name, r) ==
    LET n == fullName(f, "MkdirAll", name) IN
    IF n.err # Nil THEN Failed(n.err) ELSE Fixed(f, StoreCall("MkdirAll", <<n.full>>, r))

\* Rename that joins newname to the prefix without validating it
subFS_RenameNewUnchecked(f, oldname, newname, r) ==
    LET o == fullName(f, "rename", oldname) IN
    IF o.err # Nil THEN Failed(o.err)
    ELSE Fixed(f, StoreCall("Rename", <<o.full, pathJoin(f.dir, newname)>>, r))

subFS_Rename(f, oldname, newname, r) ==
    LET o == fullName(f, "rename", oldname)
        n == fullName(f, "rename", newname)
    IN  IF o.err # Nil THEN Failed(o.err)
        ELSE IF n.err # Nil THEN Failed(n.err)
        ELSE Fixed(f, StoreCall("Rename", <<o.full, n.full>>, r))

subFS_Chmod(f, name, r) ==
    LET n == fullName(f, "chmod", name) IN
    IF n.err # Nil THEN Failed(n.err) ELSE Fixed(f, StoreCall("Chmod", <<n.full>>, r))

subFS_Chown(f, name, r) ==
    LET n == fullName(f, "chown", name) IN
    IF n.err # Nil THEN Failed(n.err) ELSE Fixed(f, StoreCall("Chown", <<n.full>>, r))

subFS_Chtimes(f, name, r) ==
    LET n == fullName(f, "chtimes", name) IN
    IF n.err # Nil THEN Failed(n.err) ELSE Fixed(f, StoreCall("Chtimes", <<n.full>>, r))

subFS_Remove(f, name, r) ==
    LET n == fullName(f, "remove", name) IN
    IF n.err # Nil THEN Failed(n.err) ELSE Fixed(f, StoreCall("Remove", <<n.full>>, r))

subFS_RemoveAll(f, name, r) ==
    LET n == fullName(f, "RemoveAll", name) IN
    IF n.err # Nil THEN Failed(n.err) ELSE Fixed(f, StoreCall("RemoveAll", <<n.full>>, r))

subFS_Symlink(f, oldname, newname, r) ==
    LET o == fullName(f, "symlink", oldname)
        n == fullName(f, "symlink", newname)
    IN  IF o.err # Nil THEN Failed(o.err)
        ELSE IF n.err # Nil THEN Failed(n.err)
        ELSE Fixed(f, StoreCall("Symlink", <<o.full, n.full>>, r))

subFS_Link(f, oldname, newname, r) ==
    LET o == fullName(f, "link", oldname)
        n == fullName(f, "link", newname)
    IN  IF o.err # Nil THEN Failed(o.err)
        ELSE IF n.err # Nil THEN Failed(n.err)
        ELSE Fixed(f, StoreCall("Link", <<o.full, n.full>>, r))

\* path.Match(pattern, ""), by which Glob tests that a pattern is well formed
\* path.scanChunk, on the pattern without its leading stars: the position
\* after the chunk, which ends at the first star outside a class
RECURSIVE scanEnd(_, _, _)
scanEnd(pattern, i, inrange) ==
    IF i > Len(pattern) THEN i
    ELSE IF pattern[i] = "\\"
    THEN scanEnd(pattern, IF i + 1 <= Len(pattern) THEN i + 2 ELSE i + 1, inrange)
    ELSE IF pattern[i] = "[" THEN scanEnd(pattern, i + 1, TRUE)
    ELSE IF pattern[i] = "]" THEN scanEnd(pattern, i + 1, FALSE)
    ELSE IF pattern[i] = "*" /\ ~inrange THEN i
    ELSE scanEnd(pattern, i + 1, inrange)

RECURSIVE scanChunk(_)
scanChunk(pattern) ==
    IF pattern # Empty /\ pattern[1] = "*"
    THEN [scanChunk(Tail(pattern)) EXCEPT !.star = TRUE]
    ELSE LET i == scanEnd(pattern, 1, FALSE)
         IN  [star |-> FALSE, chunk |-> SubSeq(pattern, 1, i - 1),
              rest |-> SubSeq(pattern, i, Len(pattern))]

\* path.getEsc: one character of a class, escaped or not; it is not "-" or
\* "]" and something follows it
getEsc(chunk) ==
    IF chunk = Empty \/ chunk[1] = "-" \/ chunk[1] = "]"
    THEN [err |-> TRUE, nchunk |-> Empty]
    ELSE LET c == IF chunk[1] = "\\" THEN Tail(chunk) ELSE chunk
         IN  IF c = Empty THEN [err |-> TRUE, nchunk |-> Empty]
             ELSE [err |-> Tail(c) = Empty, nchunk |-> Tail(c)]

\* path.matchChunk, the loop over the ranges of a class: nrange ranges are read
RECURSIVE matchRanges(_, _)
matchRanges(chunk, nrange) ==
    IF chunk # Empty /\ chunk[1] = "]" /\ nrange > 0
    THEN [err |-> FALSE, chunk |-> Tail(chunk)]
    ELSE LET lo == getEsc(chunk)
         IN  IF lo.err THEN [err |-> TRUE, chunk |-> Empty]
             ELSE IF lo.nchunk[1] = "-"
             THEN LET hi == getEsc(Tail(lo.nchunk))
                  IN  IF hi.err THEN [err |-> TRUE, chunk |-> Empty]
                      ELSE matchRanges(hi.nchunk, nrange + 1)
             ELSE matchRanges(lo.nchunk, nrange + 1)

\* path.matchChunk(chunk, ""): the match has failed and the chunk is read to
\* its end to see that it is well formed; TRUE is ErrBadPattern
RECURSIVE matchChunk(_)
matchChunk(chunk) ==
    IF chunk = Empty THEN FALSE
    ELSE IF chunk[1] = "["
    THEN LET c == Tail(chunk)
             r == matchRanges(IF c # Empty /\ c[1] = "^" THEN Tail(c) ELSE c, 0)
         IN  r.err \/ matchChunk(r.chunk)
    ELSE IF chunk[1] = "\\"
    THEN Tail(chunk) = Empty \/ matchChunk(Tail(Tail(chunk)))
    ELSE matchChunk(Tail(chunk))

\* path.Match(pattern, ""): TRUE when it returns ErrBadPattern.  No chunk
\* matches the empty name, so every chunk is read by matchChunk, up to a
\* pattern that is stars alone
RECURSIVE Match(_)
Match(pattern) ==
    IF pattern = Empty THEN FALSE
    ELSE LET s == scanChunk(pattern)
         IN  IF s.star /\ s.chunk = Empty THEN FALSE
             ELSE matchChunk(s.chunk) \/ Match(s.rest)

ErrBadPattern == [Err |-> "syntax error in pattern"]

\* errors.New("invalid result from inner fsys Glob: " + name + " not in " + f.dir)
InvalidGlobResult(name, dir) ==
    [Err |-> "invalid result from inner fsys Glob", Name |-> name, Dir |-> dir]

\* the names of list that shorten refuses
Refused(f, list) == {i \in DOMAIN list : ~shorten(f, list[i]).ok}

\* subFS.Glob; list is the store's answer to Glob(f.fsys, full), r its error
subFS_Glob(f, pattern, list, r) ==
    IF Match(pattern)
    THEN [calls |-> <<>>, storeErr |-> Nil, err |-> ErrBadPattern, list |-> <<>>]
    ELSE IF pattern = Dot
    THEN [calls |-> <<>>, storeErr |-> Nil, err |-> Nil, list |-> <<Dot>>]
    ELSE LET full == f.dir \o Slash \o pattern
             s == StoreCall("Glob", <<full>>, r)
         IN  IF Refused(f, list) # {}
             THEN LET i == CHOOSE i \in Refused(f, list) : \A j \in Refused(f, list) : i <= j
                  IN  [calls |-> s.calls, storeErr |-> s.err,
                       err |-> InvalidGlobResult(shorten(f, list[i]).rel, f.dir),
                       list |-> <<>>]
             ELSE [calls |-> s.calls, storeErr |-> s.err, err |-> fixErr(f, s.err),
                   list |-> [i \in DOMAIN list |-> shorten(f, list[i]).rel]]

\* what Sub returned: the file system ret (0 the store, n the object heap[n],
\* Len(heap) + 1 a new object made of (fsys, dir)) or the error err
SubSame(ref) == [ret |-> ref, new |-> FALSE, fsys |-> 0, dir |-> Empty, err |-> Nil]
SubNew(fsys, dir) ==
    [ret |-> Len(heap) + 1, new |-> TRUE, fsys |-> fsys, dir |-> dir, err |-> Nil]
SubFailed(err) == [ret |-> 0, new |-> FALSE, fsys |-> 0, dir |-> Empty, err |-> err]

\* subFS.Sub without the shortcut for "."
subFS_SubAlwaysNew(ref, dir) ==
    LET f == heap[ref]
        n == fullName(f, "sub", dir)
    IN  IF n.err # Nil THEN SubFailed(n.err) ELSE SubNew(f.fsys, n.full)

\* subFS.Sub that wraps the receiver instead of joining the prefixes
subFS_SubNested(ref, dir) ==
    IF dir = Dot THEN SubSame(ref)
    ELSE IF ~ValidPath(dir) THEN SubFailed(PathError("sub", dir, ErrInvalid))
    ELSE SubNew(ref, dir)

\* subFS.Sub, on the object heap[ref]
subFS_Sub(ref, dir) ==
    LET f == heap[ref]
        n == fullName(f, "sub", dir)
    IN  IF dir = Dot THEN SubSame(ref)
        ELSE IF n.err # Nil THEN SubFailed(n.err)
        ELSE SubNew(f.fsys, n.full)

\* fs.Sub; the store itself has no Sub method, a subFS has
Sub(ref, dir) ==
    IF ~ValidPath(dir) THEN SubFailed(PathError("sub", dir, ErrInvalid))
    ELSE IF dir = Dot THEN SubSame(ref)
    ELSE IF ref # 0 THEN subFS_Sub(ref, dir)
    ELSE SubNew(ref, dir)

SubNameMethods == {"Open", "OpenFile", "Create", "Stat", "ReadDir", "ReadFile", "ReadLink",
                   "Lstat", "Mkdir", "MkdirAll", "Chmod", "Chown", "Chtimes", "Remove",
                   "RemoveAll"}
SubTwoNameMethods == {"Rename", "Symlink", "Link"}

SubNameMethod(m, f, name, r) ==
    CASE m = "Open" -> subFS_Open(f, name, r)
      [] m = "OpenFile" -> subFS_OpenFile(f, name, r)
      [] m = "Create" -> subFS_Create(f, name, r)
      [] m = "Stat" -> subFS_Stat(f, name, r)
      [] m = "ReadDir" -> subFS_ReadDir(f, name, r)
      [] m = "ReadFile" -> subFS_ReadFile(f, name, r)
      [] m = "ReadLink" -> subFS_ReadLink(f, name, r)
      [] m = "Lstat" -> subFS_Lstat(f, name, r)
      [] m = "Mkdir" -> subFS_Mkdir(f, name, r)
      [] m = "MkdirAll" -> subFS_MkdirAll(f, name, r)
      [] m = "Chmod" -> subFS_Chmod(f, name, r)
      [] m = "Chown" -> subFS_Chown(f, name, r)
      [] m = "Chtimes" -> subFS_Chtimes(f, name, r)
      [] m = "Remove" -> subFS_Remove(f, name, r)
      [] m = "RemoveAll" -> subFS_RemoveAll(f, name, r)

SubTwoNameMethod(m, f, oldname, newname, r) ==
    CASE m = "Rename" -> subFS_Rename(f, oldname, newname, r)
      [] m = "Symlink" -> subFS_Symlink(f, oldname, newname, r)
      [] m = "Link" -> subFS_Link(f, oldname, newname, r)

S_x == <<"x">>
S_y == <<"y">>
S_yz == <<"y", "/", "z">>
S_up == <<".", ".", "/", "y">>
S_ySlash == <<"y", "/">>

\* names passed to the methods of a subFS
SubNames == {Dot, S_x, S_y, S_yz, S_up, S_ySlash, Empty}

\* directories passed to Sub
SubDirs == {Dot, S_x, S_up}

AllCaps == {"OpenFileFS"}

G_star == <<"*">>
G_yStar == <<"y", "/", "*">>
G_class == <<"[", "y", "]">>
G_open == <<"[">>
G_tail == <<"y", "/", "[">>
G_range == <<"[", "^", "x", "-", "z", "]">>
G_escaped == <<"\\", "[", "*">>
G_closeFirst == <<"[", "]", "y", "]">>
G_noHigh == <<"[", "y", "-", "]">>
G_lastEscape == <<"y", "\\">>
G_starInClass == <<"[", "*", "]", "*", "[">>

\* patterns passed to Glob
Patterns == {Dot, G_star, G_yStar, G_class, G_open, G_tail, G_range, G_escaped,
             G_closeFirst, G_noHigh, G_lastEscape, G_starInClass}

\* a name the store may return from Glob when asked under the prefix dir
MatchOf(dir, kind) ==
    CASE kind = "in" -> dir \o <<"/", "y">>
      [] kind = "deep" -> dir \o <<"/", "y", "/", "z">>
      [] kind = "self" -> dir
      [] kind = "bare" -> dir \o Slash
      [] kind = "sibling" -> dir \o <<"y", "/", "z">>
      [] kind = "foreign" -> <<"q">>

MatchKinds == {"in", "deep", "self", "bare", "sibling", "foreign"}

\* the lists of at most two names
MatchLists ==
    {<<>>} \cup {<<a>> : a \in MatchKinds} \cup {<<a, b>> : a, b \in MatchKinds}

NoCall ==
    [op |-> "", args |-> <<>>, recv |-> 0, ret |-> 0, nobj |-> 0, calls |-> <<>>,
     storeErr |-> Nil, err |-> Nil, raw |-> <<>>, list |-> <<>>, target |-> Empty]

\* the caller derives a subtree of the file system it holds with fs.Sub or,
\* when it holds a subFS, with its Sub method, and holds the result
Derive(via, dir) ==
    /\ subOut = NoCall
    /\ via = "subFS.Sub" => cur # 0
    /\ LET s == IF via = "subFS.Sub" THEN subFS_Sub(cur, dir) ELSE Sub(cur, dir)
       IN  /\ s.new => Len(heap) < MaxObjects
           /\ heap' = IF s.new THEN Append(heap, [fsys |-> s.fsys, dir |-> s.dir])
                      ELSE heap
           /\ cur' = IF s.err = Nil THEN s.ret ELSE cur
           /\ subOut' = [NoCall EXCEPT !.op = via, !.args = <<dir>>, !.recv = cur,
                                       !.ret = s.ret, !.nobj = Len(heap), !.err = s.err]
    /\ UNCHANGED <<caps, stored, split, rootVars>>

\* the caller calls a one-name method of the subFS it holds
SubCallName(m, name, r) ==
    /\ subOut = NoCall
    /\ cur # 0
    /\ LET d == SubNameMethod(m, heap[cur], name, r)
       IN  subOut' = [NoCall EXCEPT !.op = m, !.args = <<name>>, !.recv = cur,
                                    !.nobj = Len(heap), !.calls = d.calls,
                                    !.storeErr = d.storeErr, !.err = d.err]
    /\ UNCHANGED <<heap, cur, caps, stored, split, rootVars>>

\* the caller calls Rename, Symlink or Link of the subFS it holds
SubCallTwoNames(m, oldname, newname, r) ==
    /\ subOut = NoCall
    /\ cur # 0
    /\ LET d == SubTwoNameMethod(m, heap[cur], oldname, newname, r)
       IN  subOut' = [NoCall EXCEPT !.op = m, !.args = <<oldname, newname>>, !.recv = cur,
                                    !.nobj = Len(heap), !.calls = d.calls,
                                    !.storeErr = d.storeErr, !.err = d.err]
    /\ UNCHANGED <<heap, cur, caps, stored, split, rootVars>>

\* the caller calls Glob of the subFS it holds; the store answers with the
\* names kinds stand for and the error r says
SubCallGlob(pattern, kinds, r) ==
    /\ subOut = NoCall
    /\ cur # 0
    /\ LET raw == [i \in DOMAIN kinds |-> MatchOf(heap[cur].dir, kinds[i])]
           d == subFS_Glob(heap[cur], pattern, raw, r)
       IN  subOut' = [NoCall EXCEPT !.op = "Glob", !.args = <<pattern>>, !.recv = cur,
                                    !.nobj = Len(heap), !.calls = d.calls,
                                    !.storeErr = d.storeErr, !.err = d.err,
                                    !.raw = IF d.calls = <<>> THEN <<>> ELSE raw,
                                    !.list = d.list]
    /\ UNCHANGED <<heap, cur, caps, stored, split, rootVars>>

\* the store after Symlink(oldname, newname) returned nil: newname is a link
\* with the text oldname; by, old and new record the call of the subFS
StoreSymlink(oldname, newname, by, old, new) ==
    [n \in DOMAIN stored \cup {newname} |->
        IF n = newname THEN [target |-> oldname, by |-> by, old |-> old, new |-> new]
        ELSE stored[n]]

\* the caller calls Symlink of the subFS it holds, over a store that keeps
\* its links: the store refuses a name that is a link already, and the
\* name of the directory the subtree stands for
LinkSymlink(oldname, newname) ==
    /\ subOut = NoCall
    /\ cur # 0
    /\ LET f == heap[cur]
           n == fullName(f, "symlink", newname)
           r == IF n.err = Nil /\ (n.full \in DOMAIN stored \/ n.full = f.dir)
                THEN "errNew" ELSE "ok"
           d == subFS_Symlink(f, oldname, newname, r)
           made == d.calls # <<>> /\ d.storeErr = Nil
       IN  /\ made => Cardinality(DOMAIN stored) < MaxLinks
           /\ stored' = IF made
                         THEN StoreSymlink(d.calls[1].names[1], d.calls[1].names[2],
                                           cur, oldname, newname)
                         ELSE stored
           /\ subOut' = [NoCall EXCEPT !.op = "Symlink", !.args = <<oldname, newname>>,
                                       !.recv = cur, !.nobj = Len(heap), !.calls = d.calls,
                                       !.storeErr = d.storeErr, !.err = d.err]
    /\ UNCHANGED <<heap, cur, caps, split, rootVars>>

\* the caller calls ReadLink of the subFS it holds, over the same store
LinkReadLink(name) ==
    /\ subOut = NoCall
    /\ cur # 0
    /\ LET f == heap[cur]
           n == fullName(f, "readlink", name)
           r == IF n.err = Nil /\ n.full \in DOMAIN stored THEN "ok" ELSE "errOld"
           d == subFS_ReadLink(f, name, r)
       IN  subOut' = [NoCall EXCEPT !.op = "ReadLink", !.args = <<name>>, !.recv = cur,
                                    !.nobj = Len(heap), !.calls = d.calls,
                                    !.storeErr = d.storeErr, !.err = d.err,
                                    !.target = d.target]
    /\ UNCHANGED <<heap, cur, caps, stored, split, rootVars>>

\* the caller goes back to the store or to a subFS made earlier
Hold(ref) ==
    /\ subOut = NoCall
    /\ ref \in 0..Len(heap)
    /\ ref # cur
    /\ cur' = ref
    /\ UNCHANGED <<heap, caps, subOut, stored, split, rootVars>>

\* the caller has looked at what the call returned
SubReturn ==
    /\ subOut # NoCall
    /\ subOut' = NoCall
    /\ UNCHANGED <<heap, cur, caps, stored, split, rootVars>>

RootInit ==
    /\ closed = FALSE
    /\ refs = 0
    /\ fdOpen = TRUE
    /\ closeDone = FALSE
    /\ call = [p \in Procs |-> Idle]
    /\ escaped = FALSE
    /\ staleUse = FALSE

\* no subFS has been made
SubIdle ==
    /\ heap = <<>>
    /\ cur = 0
    /\ caps = AllCaps
    /\ subOut = NoCall
    /\ stored = <<>>
    /\ split = NoSplit

Init ==
    /\ RootInit
    /\ link = [d \in Dirs |-> NoLink]
    /\ budget = MaxRetarget
    /\ SubIdle

\* a store that implements every optional interface, or all but OpenFileFS
InitSub ==
    /\ RootInit
    /\ link = [d \in Dirs |-> NoLink]
    /\ budget = 0
    /\ heap = <<>>
    /\ cur = 0
    /\ caps \in {AllCaps, {}}
    /\ subOut = NoCall
    /\ stored = <<>>
    /\ split = NoSplit

NextSub ==
    \/ \E via \in {"fs.Sub", "subFS.Sub"}, dir \in SubDirs : Derive(via, dir)
    \/ \E m \in SubNameMethods, name \in SubNames, r \in Replies : SubCallName(m, name, r)
    \/ \E m \in SubTwoNameMethods, oldname \in SubNames, newname \in SubNames, r \in Replies :
           SubCallTwoNames(m, oldname, newname, r)
    \/ \E pattern \in Patterns, kinds \in MatchLists, r \in {"ok", "errOld", "errForeign"} :
           SubCallGlob(pattern, kinds, r)
    \/ \E ref \in 0..MaxObjects : Hold(ref)
    \/ SubReturn

SpecSub == InitSub /\ [][NextSub]_vars

\* a caller makes and reads symlinks through subtrees of one store
NextLink ==
    \/ \E via \in {"fs.Sub", "subFS.Sub"}, dir \in SubDirs : Derive(via, dir)
    \/ \E oldname \in SubNames, newname \in SubNames : LinkSymlink(oldname, newname)
    \/ \E name \in SubNames : LinkReadLink(name)
    \/ \E ref \in 0..MaxObjects : Hold(ref)
    \/ SubReturn

SpecLink == InitSub /\ [][NextLink]_vars

NextSplit ==
    \/ \E s \in SplitNames, prefix \in SplitPrefixes, suffix \in SplitSuffixes :
           Split(s, prefix, suffix)
    \/ SplitReturn

SpecSplit == Init /\ [][NextSplit]_vars

\* the steps of a call once its method has started it
Resolve(p) ==
    \/ Enter(p)
    \/ ResolveDotDot(p)
    \/ ResolveDir(p)
    \/ NextName(p)
    \/ ResolveLast(p)
    \/ Done(p)

\* goroutine p calls any method of the Root with any of the names
Method(p) ==
    \/ BeginName(p, NameOps, Names)
    \/ BeginPerm(p, PermOps, Names)
    \/ BeginOpenFile(p, Names)
    \/ BeginTwoNames(p, TwoNameOps, Names)
    \/ BeginSymlink(p, Names)
    \/ Resolve(p)
    \/ ReadFileContents(p)
    \/ WriteFileData(p)

\* one goroutine calls the methods of the Root; another actor rewrites symlinks
Next ==
    \/ Method("g1")
    \/ \E d \in Dirs, t \in Targets \cup {NoLink} : Retarget(d, t)

Spec == Init /\ [][Next]_vars

\* one goroutine calls the methods of the Root, and the Root is closed at some point
NextClose ==
    \/ Method("g1")
    \/ RootClose

SpecClose == Init /\ [][NextClose]_vars

\* the tree holds the symlinks l -> a and a/l -> ../l
InitConc ==
    /\ RootInit
    /\ link = [d \in Dirs |-> IF d = "root" THEN P_a ELSE P_upl]
    /\ budget = 0
    /\ SubIdle

\* two goroutines use the Root at the same time, and one Close
NextConc ==
    \/ \E p \in Procs :
          \/ BeginName(p, ConcOps, ConcNames)
          \/ BeginTwoNames(p, {"Rename"}, ConcNames)
          \/ Resolve(p)
    \/ RootClose

SpecConc == InitConc /\ [][NextConc]_vars

----------------------------------------------------------------------------
(* Predicates on a call *)

InFlight(c) == c.pc \in {"enter", "resolve"}

\* the next step of call c reads a symlink that the resolver follows
AtSymlink(c) ==
    /\ c.pc = "resolve"
    /\ c.parts[c.i + 1] # DotDot
    /\ Lookup(c.dirfd, c.parts[c.i + 1]).kind = "symlink"
    /\ \/ c.i < Len(c.parts) - 1
       \/ c.k = Len(c.names) /\ (c.fn \in Follows \/ c.suffixSep # Empty)

\* the number of ".." components of parts from position i on (0-based)
RECURSIVE upRun(_, _)
upRun(parts, i) ==
    IF i < Len(parts) /\ parts[i + 1] = DotDot THEN 1 + upRun(parts, i + 1) ELSE 0

\* the next step of call c would leave the root: the name is absolute, the
\* symlink it is about to follow holds an absolute target, or the ".."
\* components in front of it outnumber the directories below the root
LeavesRoot(c) ==
    \/ /\ c.pc = "enter"
       /\ ~closed
       /\ c.names[c.k] # Empty
       /\ c.names[c.k][1] = "/"
    \/ /\ AtSymlink(c)
       /\ link[c.dirfd][1] = "/"
    \/ /\ c.pc = "resolve"
       /\ upRun(c.parts, c.i) > c.i

----------------------------------------------------------------------------
(* C1: no Root operation, for any name and whatever the symlinks of the    *)
(* tree are or become while the name is resolved, issues a platform call   *)
(* against a location outside the root's subtree or holds a directory      *)
(* outside it; and a step that would leave the root (absolute name,        *)
(* absolute symlink target, ".." past the root) ends the call with an      *)
(* error and without a platform call.                                      *)

C1_Confined ==
    /\ ~escaped
    /\ \A p \in Procs : call[p].dirfd \in Dirs

\* the symlink that call c is about to read is the ninth of the call
AtNinthSymlink(c) == AtSymlink(c) /\ c.symlinks = 8

C1_EscapeStepAsClaimed ==
    \A p \in Procs :
        (LeavesRoot(call[p]) /\ call'[p] # call[p])
            => /\ call'[p].pc = "done"
               /\ call'[p].result.Err = errPathEscapes
               /\ escaped' = escaped

C1_EscapeStep ==
    \A p \in Procs :
        /\ (LeavesRoot(call[p]) /\ call'[p] # call[p])
               => /\ call'[p].pc = "done"
                  /\ call'[p].result.Err =
                         IF AtNinthSymlink(call[p]) THEN ELOOP ELSE errPathEscapes
                  /\ escaped' = escaped
        /\ (AtNinthSymlink(call[p]) /\ call'[p] # call[p])
               => /\ call'[p].pc = "done"
                  /\ call'[p].result.Err = ELOOP
                  /\ escaped' = escaped

C1_WitnessNinth ==
    /\ call["g1"].pc = "done"
    /\ call["g1"].result.Err = ELOOP
    /\ call["g1"].symlinks = 9
    /\ link["root"] = P_abs
    /\ ~escaped

----------------------------------------------------------------------------
(* C2: resolution terminates.  The symlink counter of a call starts at 0,  *)
(* grows by exactly one with each symlink read, the call fails with ELOOP  *)
(* as soon as the counter exceeds 8, and every step of a call in flight    *)
(* strictly decreases a well-founded rank, so no call runs forever.        *)

C2_Counter ==
    \A p \in Procs :
        LET c == call[p] IN
        /\ c.pc = "enter" => c.symlinks = 0
        /\ c.pc = "resolve" => c.symlinks <= 8
        /\ c.symlinks > 8 => (c.pc = "done" /\ c.result.Err = ELOOP)
        /\ (c.pc = "done" /\ c.result.Err = ELOOP) => c.symlinks = 9

LexLess(a, b) ==
    \E n \in 1..Len(a) : a[n] < b[n] /\ \A m \in 1..(n - 1) : a[m] = b[m]

\* names still to resolve, symlinks still allowed, components still to walk
Rank(c) ==
    <<Len(c.names) - c.k, IF c.pc = "enter" THEN 1 ELSE 0, 9 - c.symlinks,
      Len(c.parts), Len(c.parts) - c.i>>

C2_Step ==
    \A p \in Procs :
        LET c == call[p] IN
        /\ (AtSymlink(c) /\ call'[p] # c) => call'[p].symlinks = c.symlinks + 1
        /\ (c.pc = "resolve" /\ ~AtSymlink(c) /\ call'[p].pc \in {"resolve", "done"})
               => call'[p].symlinks = c.symlinks
        /\ (InFlight(c) /\ call'[p] # c)
               => (call'[p].pc = "done" \/ LexLess(Rank(call'[p]), Rank(c)))

C2_Terminates == []C2_Counter /\ [][C2_Step]_vars

\* a call through a symlink cycle has failed with ELOOP at the ninth symlink
C2_Witness ==
    /\ call["g1"].pc = "done"
    /\ call["g1"].result.Err = ELOOP
    /\ call["g1"].symlinks = 9

----------------------------------------------------------------------------
(* C3: once Root.Close has returned, a later call of any method never      *)
(* reaches the directory and the root never becomes usable again.          *)

PermChecked == {"OpenFile", "Mkdir", "MkdirAll", "WriteFile"}

\* C3 as claimed: every call made after Close returns the closed-handle error
C3_AlwaysErrClosed ==
    \A p \in Procs :
        (call[p].pc = "done" /\ call[p].afterClose) => call[p].result.Err = ErrClosed

\* C3 as amended: a call made after Close returns the closed-handle error,
\* except that OpenFile, Mkdir, MkdirAll and WriteFile with permission bits
\* outside 0o777 return the unsupported-file-mode error, which they test
\* first; the call makes no platform call, and a closed root stays closed.
C3_ClosedForGood ==
    /\ closeDone => (closed /\ (refs = 0 => ~fdOpen))
    /\ \A p \in Procs :
           LET c == call[p] IN
           c.afterClose =>
               /\ c.pc \in {"enter", "done"}
               /\ ~c.touched
               /\ c.pc = "done" =>
                      \/ c.result.Err = ErrClosed
                      \/ /\ c.result.Err = errUnsupportedMode
                         /\ c.op \in PermChecked
                         /\ c.perm >= 512

\* a call made after Close has returned the closed-handle error
C3_Witness ==
    /\ closeDone
    /\ call["g1"].pc = "done"
    /\ call["g1"].afterClose
    /\ call["g1"].op = "Stat"
    /\ call["g1"].result.Err = ErrClosed

----------------------------------------------------------------------------
(* C4: with two goroutines in Root methods and a Close at any point, no    *)
(* platform call is issued on a released handle: a call that found the     *)
(* root open keeps the handle valid until it returns, a call that finds it *)
(* closed returns the closed-handle error without a platform call, and a   *)
(* step of one call changes nothing of the other.                          *)

Holding == {p \in Procs : call[p].pc = "resolve" \/ (call[p].pc = "enter" /\ call[p].k > 1)}

C4_HandleValid ==
    /\ ~staleUse
    /\ refs = Cardinality(Holding)
    /\ Holding # {} => fdOpen
    /\ \A p \in Procs : call[p].result.Err = ErrClosed => closed

C4_Step ==
    /\ \A p \in Procs :
           (call[p].pc = "enter" /\ closed /\ call'[p] # call[p])
               => /\ call'[p].pc = "done"
                  /\ call'[p].result.Err = ErrClosed
                  /\ call'[p].touched = call[p].touched
    /\ \A p, q \in Procs :
           (p # q /\ call'[p] # call[p]) => call'[q] = call[q]

C4_RaceWithClose == []C4_HandleValid /\ [][C4_Step]_vars

\* Close came while g1 was resolving: g1 still holds the valid handle and
\* g2, which started later, got the closed-handle error
C4_Witness ==
    /\ closed
    /\ fdOpen
    /\ call["g1"].pc = "resolve"
    /\ call["g1"].touched
    /\ call["g2"].pc = "done"
    /\ call["g2"].result.Err = ErrClosed

----------------------------------------------------------------------------
(* C7: OpenFile, Mkdir, MkdirAll and WriteFile with a permission bit       *)
(* outside 0o777 return the unsupported-file-mode error with the name as   *)
(* supplied, before any log, resolution or platform call; with perm within *)
(* 0o777 the call goes on to the internal function.                        *)

C7_PermChecked ==
    \A p \in Procs :
        LET c == call[p] IN
        (c.pc # "idle" /\ c.op \in PermChecked) =>
            /\ c.perm >= 512 =>
                   /\ c.pc = "done"
                   /\ c.result.Err = errUnsupportedMode
                   /\ c.result.Path = c.args[1]
                   /\ c.fn = ""
                   /\ c.log = ""
                   /\ ~c.touched
                   /\ c.symlinks = 0
            /\ c.perm < 512 =>
                   /\ c.result.Err # errUnsupportedMode
                   /\ c.fn # ""

\* WriteFile with the mode 0o1000 has been refused
C7_Witness ==
    /\ call["g1"].pc = "done"
    /\ call["g1"].op = "WriteFile"
    /\ call["g1"].perm = 512
    /\ call["g1"].result = PathError("openat", P_ab, errUnsupportedMode)

\* MkdirAll with the mode 0o644 has gone on to the platform
C7_WitnessProceeds ==
    /\ call["g1"].op = "MkdirAll"
    /\ call["g1"].perm = 420
    /\ call["g1"].touched

----------------------------------------------------------------------------
(* The file system of a Root, root.go:359-555: every method of rootFS      *)
(* validates its names and then calls the method of the Root.              *)

\* the platform is not Windows: no further test
isValidRootFSPath(name) == ValidPath(name)

\* the rootFS method returns ret without calling the Root
Reject(ret) == Return("", ret)

rootFS_Open(name) ==
    IF ~isValidRootFSPath(name) THEN Reject(PathError("open", name, ErrInvalid))
    ELSE RootOpen(name)

rootFS_OpenFile(name, flag, perm) ==
    IF ~isValidRootFSPath(name) THEN Reject(PathError("open", name, ErrInvalid))
    ELSE RootOpenFile(name, flag, perm)

rootFS_Create(name) ==
    IF ~isValidRootFSPath(name) THEN Reject(PathError("create", name, ErrInvalid))
    ELSE RootCreate(name)

\* opens the directory; its entries are then read and sorted
rootFS_ReadDir(name) ==
    IF ~isValidRootFSPath(name) THEN Reject(PathError("readdir", name, ErrInvalid))
    ELSE RootOpen(name)

\* validates the name and opens the file; its contents are then read
rootFS_ReadFile(name) ==
    IF ~isValidRootFSPath(name) THEN Reject(PathError("readfile", name, ErrInvalid))
    ELSE RootOpen(name)

rootFS_Stat(name) ==
    IF ~isValidRootFSPath(name) THEN Reject(PathError("stat", name, ErrInvalid))
    ELSE RootStat(name)

rootFS_Rename(oldname, newname) ==
    IF ~(isValidRootFSPath(oldname) \/ isValidRootFSPath(newname))
    THEN Reject(LinkError("rename", oldname, newname, ErrInvalid))
    ELSE RootRename(oldname, newname)

rootFS_Remove(name) ==
    IF ~isValidRootFSPath(name) THEN Reject(PathError("remove", name, ErrInvalid))
    ELSE RootRemove(name)

rootFS_RemoveAll(name) ==
    IF ~isValidRootFSPath(name) THEN Reject(PathError("remove", name, ErrInvalid))
    ELSE RootRemoveAll(name)

rootFS_Mkdir(name, perm) ==
    IF ~isValidRootFSPath(name) THEN Reject(PathError("mkdir", name, ErrInvalid))
    ELSE RootMkdir(name, perm)

rootFS_MkdirAll(name, perm) ==
    IF ~isValidRootFSPath(name) THEN Reject(PathError("mkdir", name, ErrInvalid))
    ELSE RootMkdirAll(name, perm)

rootFS_Chmod(name) ==
    IF ~isValidRootFSPath(name) THEN Reject(PathError("chmod", name, ErrInvalid))
    ELSE RootChmod(name)

rootFS_Chown(name) ==
    IF ~isValidRootFSPath(name) THEN Reject(PathError("chown", name, ErrInvalid))
    ELSE RootChown(name)

\* Chtimes without the test of the name
rootFS_ChtimesUnchecked(name) == RootChtimes(name)

rootFS_Chtimes(name) ==
    IF ~isValidRootFSPath(name) THEN Reject(PathError("chtimes", name, ErrInvalid))
    ELSE RootChtimes(name)

rootFS_Link(oldname, newname) ==
    IF ~isValidRootFSPath(oldname) THEN Reject(PathError("link", oldname, ErrInvalid))
    ELSE IF ~isValidRootFSPath(newname)
    THEN Reject(PathError("link", newname, ErrInvalid))
    ELSE RootLink(oldname, newname)

rootFS_Symlink(oldname, newname) ==
    IF ~isValidRootFSPath(oldname) THEN Reject(PathError("symlink", oldname, ErrInvalid))
    ELSE IF ~isValidRootFSPath(newname)
    THEN Reject(PathError("symlink", newname, ErrInvalid))
    ELSE RootSymlink(oldname, newname)

rootFS_Lstat(name) ==
    IF ~isValidRootFSPath(name) THEN Reject(PathError("lstat", name, ErrInvalid))
    ELSE RootLstat(name)

rootFS_ReadLink(name) ==
    IF ~isValidRootFSPath(name) THEN Reject(PathError("readlink", name, ErrInvalid))
    ELSE RootReadlink(name)

FSNameMethods == {"Open", "Create", "ReadDir", "ReadFile", "Stat", "Remove", "RemoveAll",
                  "Chmod", "Chown", "Chtimes", "Lstat", "ReadLink"}
FSPermMethods == {"Mkdir", "MkdirAll"}
FSTwoNameMethods == {"Rename", "Link", "Symlink"}
FSSingleName == FSNameMethods \cup FSPermMethods \cup {"OpenFile"}

FSNameMethod(m, name) ==
    CASE m = "Open" -> rootFS_Open(name)
      [] m = "Create" -> rootFS_Create(name)
      [] m = "ReadDir" -> rootFS_ReadDir(name)
      [] m = "ReadFile" -> rootFS_ReadFile(name)
      [] m = "Stat" -> rootFS_Stat(name)
      [] m = "Remove" -> rootFS_Remove(name)
      [] m = "RemoveAll" -> rootFS_RemoveAll(name)
      [] m = "Chmod" -> rootFS_Chmod(name)
      [] m = "Chown" -> rootFS_Chown(name)
      [] m = "Chtimes" -> rootFS_Chtimes(name)
      [] m = "Lstat" -> rootFS_Lstat(name)
      [] m = "ReadLink" -> rootFS_ReadLink(name)

FSPermMethod(m, name, perm) ==
    CASE m = "Mkdir" -> rootFS_Mkdir(name, perm)
      [] m = "MkdirAll" -> rootFS_MkdirAll(name, perm)

FSTwoNameMethod(m, oldname, newname) ==
    CASE m = "Rename" -> rootFS_Rename(oldname, newname)
      [] m = "Link" -> rootFS_Link(oldname, newname)
      [] m = "Symlink" -> rootFS_Symlink(oldname, newname)

P_aab == <<"a", "/", "/", "b">>
P_dotl == <<".", "/", "l">>

\* names passed to the methods of the file system of a Root
FSNames == {Empty, Dot, P_abs, P_up, P_aSlash, P_aab, P_dotl, P_ab, P_l, P_lb}

\* second names of its Rename, Link and Symlink
FSNewNames == {P_l, P_al, P_up, P_aSlash}

\* the call of the rootFS method m with the arguments arg
\* the byte of a character of a name
ByteOf(ch) ==
    CASE ch = "." -> 46
      [] ch = "B" -> 66
      [] ch = "a" -> 97
      [] ch = "b" -> 98

\* bytealg.CompareString(a, b): the first byte that differs decides, then
\* the lengths
RECURSIVE compareFrom(_, _, _)
compareFrom(a, b, i) ==
    IF i > Len(a) \/ i > Len(b)
    THEN (IF Len(a) < Len(b) THEN -1 ELSE IF Len(a) > Len(b) THEN 1 ELSE 0)
    ELSE IF ByteOf(a[i]) < ByteOf(b[i]) THEN -1
    ELSE IF ByteOf(a[i]) > ByteOf(b[i]) THEN 1
    ELSE compareFrom(a, b, i + 1)

CompareString(a, b) == compareFrom(a, b, 1)

\* slices.SortFunc on a short slice is an insertion sort:
\* for j := i; j > 0 && cmp(data[j], data[j-1]) < 0; j-- { swap }
RECURSIVE insertBack(_, _)
insertBack(data, j) ==
    IF j > 1 /\ CompareString(data[j], data[j - 1]) < 0
    THEN insertBack([data EXCEPT ![j] = data[j - 1], ![j - 1] = data[j]], j - 1)
    ELSE data

RECURSIVE insertionSort(_, _)
insertionSort(data, i) ==
    IF i > Len(data) THEN data ELSE insertionSort(insertBack(data, i), i + 1)

SortFunc(data) == insertionSort(data, 2)

\* the end of rootFS.ReadDir that sorts only a complete listing
rootFS_ReadDirSortOnSuccess(dirs, err) ==
    [dirs |-> IF err = Success THEN SortFunc(dirs) ELSE dirs, err |-> err]

\* the end of rootFS.ReadDir: dirs, err := f.ReadDir(-1); slices.SortFunc(dirs, ...);
\* return dirs, err
rootFS_ReadDirSort(dirs, err) == [dirs |-> SortFunc(dirs), err |-> err]

E_B == <<"B">>
E_a == <<"a">>
E_aDot == <<"a", ".">>
E_ab == <<"a", "b">>

\* names of directory entries
EntryNames == {E_B, E_a, E_aDot, E_ab}

\* the entries of any part of a directory in any order
RawLists ==
    {<<>>} \cup {<<x>> : x \in EntryNames}
    \cup {l \in {<<x, y>> : x, y \in EntryNames} : l[1] # l[2]}
    \cup {l \in {<<x, y, z>> : x, y, z \in EntryNames} :
              l[1] # l[2] /\ l[1] # l[3] /\ l[2] # l[3]}
    \cup {l \in {<<w, x, y, z>> : w, x, y, z \in EntryNames} :
              Cardinality({l[1], l[2], l[3], l[4]}) = 4}

\* rootFS.ReadDir after r.Open: f.ReadDir(-1) returns the entries raw in the
\* order of the platform, all of them or those read before an error
FSReadDir(p) ==
    /\ call[p].pc = "readdir"
    /\ \E raw \in RawLists, err \in {Success, PathError("readdirent", call[p].args[1], "EIO")} :
           LET d == rootFS_ReadDirSort(raw, err)
           IN  call' = [call EXCEPT ![p] = [@ EXCEPT !.pc = "done", !.raw = raw,
                                                     !.dirs = d.dirs, !.result = d.err]]
    /\ rootFrame

ViaFS(m, arg, plan) == [Started("", arg, plan) EXCEPT !.fs = m]

FSBeginName(p) ==
    /\ call[p].pc = "idle"
    /\ \E m \in FSNameMethods, name \in FSNames :
           call' = [call EXCEPT ![p] = ViaFS(m, <<name>>, FSNameMethod(m, name))]
    /\ rootFrame

FSBeginPerm(p) ==
    /\ call[p].pc = "idle"
    /\ \E m \in FSPermMethods, name \in FSNames, perm \in Perms :
           call' = [call EXCEPT ![p] =
                       [ViaFS(m, <<name>>, FSPermMethod(m, name, perm)) EXCEPT !.perm = perm]]
    /\ rootFrame

FSBeginOpenFile(p) ==
    /\ call[p].pc = "idle"
    /\ \E name \in FSNames, flag \in FlagSets, perm \in Perms :
           call' = [call EXCEPT ![p] =
                       [ViaFS("OpenFile", <<name>>, rootFS_OpenFile(name, flag, perm))
                            EXCEPT !.perm = perm]]
    /\ rootFrame

FSBeginTwoNames(p) ==
    /\ call[p].pc = "idle"
    /\ \E m \in FSTwoNameMethods, oldname \in FSNames, newname \in FSNewNames :
           call' = [call EXCEPT ![p] =
                       ViaFS(m, <<oldname, newname>>, FSTwoNameMethod(m, oldname, newname))]
    /\ rootFrame

\* one goroutine uses the Root through its file system
NextFS ==
    \/ FSBeginName("g1")
    \/ FSBeginPerm("g1")
    \/ FSBeginOpenFile("g1")
    \/ FSBeginTwoNames("g1")
    \/ Resolve("g1")
    \/ FSReadDir("g1")
    \/ ReadFileContents("g1")

SpecFS == Init /\ [][NextFS]_vars

\* name fails the validation of file system names: it is not ".", and it is
\* empty, starts or ends with a separator, or has an element that is empty,
\* "." or ".."
FailsValidation(name) ==
    /\ name # Dot
    /\ \/ name = Empty
       \/ name[1] = "/"
       \/ name[Len(name)] = "/"
       \/ \E i \in 1..(Len(name) - 1) : name[i] = "/" /\ name[i + 1] = "/"
       \/ \E i \in 1..Len(name), j \in 1..Len(name) :
              /\ i <= j
              /\ i = 1 \/ name[i - 1] = "/"
              /\ j = Len(name) \/ name[j + 1] = "/"
              /\ SubSeq(name, i, j) \in {Dot, DotDot}

----------------------------------------------------------------------------
(* C5: a single-name method of the file system of a Root, given a name     *)
(* that fails validation, returns ErrInvalid with the name as supplied and *)
(* does not call the Root: no log, no resolution, no platform call.        *)

C5_InvalidRejected ==
    \A p \in Procs :
        LET c == call[p] IN
        (c.fs \in FSSingleName /\ FailsValidation(c.args[1])) =>
            /\ c.pc = "done"
            /\ c.result.Err = ErrInvalid
            /\ c.result.Path = c.args[1]
            /\ c.root = ""
            /\ c.fn = ""
            /\ c.log = ""
            /\ ~c.touched

\* Open("../e") through the file system has been refused
C5_Witness ==
    /\ call["g1"].fs = "Open"
    /\ call["g1"].pc = "done"
    /\ call["g1"].result = PathError("open", P_up, ErrInvalid)

----------------------------------------------------------------------------
(* C6: Rename, Link and Symlink of the file system of a Root, given an     *)
(* oldname or a newname that fails validation, return ErrInvalid and do    *)
(* not call the Root.                                                      *)

C6_EitherInvalidRejected ==
    \A p \in Procs :
        LET c == call[p] IN
        (c.fs \in FSTwoNameMethods
             /\ (FailsValidation(c.args[1]) \/ FailsValidation(c.args[2]))) =>
            /\ c.pc = "done"
            /\ c.result.Err = ErrInvalid
            /\ c.root = ""
            /\ ~c.touched

----------------------------------------------------------------------------
(* Claims about subFS *)

\* the name D/N that the claims speak of
Prefixed(dir, name) == IF name = Dot THEN dir ELSE dir \o Slash \o name

SubMethodCalled ==
    /\ subOut.op \in SubNameMethods \cup SubTwoNameMethods
    /\ \A i \in DOMAIN subOut.args : ValidPath(subOut.args[i])

\* C8: for every operation of a subFS with prefix D and every valid name N,
\* the wrapped store is called with D/N, and when the store fails with a
\* PathError whose path is D/N the error returned to the caller reports
\* exactly N.
C8_ErrorPathStripped ==
    SubMethodCalled =>
        LET D == heap[subOut.recv].dir IN
        /\ \A c \in DOMAIN subOut.calls :
               subOut.calls[c].names = [i \in DOMAIN subOut.args |-> Prefixed(D, subOut.args[i])]
        /\ \A i \in DOMAIN subOut.args :
               (IsPathError(subOut.storeErr) /\ subOut.storeErr.Path = Prefixed(D, subOut.args[i]))
                   => subOut.err.Path = subOut.args[i]

\* C9: Rename, Link and Symlink of a subFS validate both names; when either
\* is invalid the method returns an invalid-path error naming an invalid
\* name and the wrapped store is not called; when both are valid the store
\* is called exactly once, with both names prefixed.
C9_BothNamesValidated ==
    subOut.op \in SubTwoNameMethods =>
        LET D == heap[subOut.recv].dir
            oldname == subOut.args[1]
            newname == subOut.args[2]
        IN  IF ValidPath(oldname) /\ ValidPath(newname)
            THEN subOut.calls = <<[op |-> subOut.op,
                                   names |-> <<Prefixed(D, oldname), Prefixed(D, newname)>>]>>
            ELSE /\ subOut.calls = <<>>
                 /\ IsPathError(subOut.err)
                 /\ subOut.err.Err = ErrInvalid
                 /\ subOut.err.Path \in {n \in {oldname, newname} : ~ValidPath(n)}

\* Rename of a valid name to "../y" under the prefix x has been refused
C9_Witness ==
    /\ subOut.op = "Rename"
    /\ heap[subOut.recv].dir = S_x
    /\ subOut.args = <<S_yz, S_up>>
    /\ subOut.calls = <<>>
    /\ subOut.err = PathError("rename", S_up, ErrInvalid)

\* Symlink of two valid names under the prefix x has called the store once
C9_WitnessCalled ==
    /\ subOut.op = "Symlink"
    /\ heap[subOut.recv].dir = S_x
    /\ subOut.args = <<S_y, S_yz>>
    /\ subOut.calls = <<[op |-> "Symlink", names |-> <<<<"x", "/", "y">>, <<"x", "/", "y", "/", "z">>>>]>>

\* C10: fs.Sub(fsys, ".") returns fsys itself with no error and without a
\* call to fsys, and f.Sub(".") of a subFS returns f itself; no object is
\* made, and the caller holds the reference it held before.
C10_SubDotIdentity ==
    (subOut.op \in {"fs.Sub", "subFS.Sub"} /\ subOut.args = <<Dot>>) =>
        /\ subOut.ret = subOut.recv
        /\ subOut.err = Nil
        /\ subOut.calls = <<>>
        /\ Len(heap) = subOut.nobj
        /\ cur = subOut.recv

\* the method Sub of the subFS with prefix x/x has been called with "."
C10_Witness ==
    /\ subOut.op = "subFS.Sub"
    /\ subOut.args = <<Dot>>
    /\ subOut.recv = 2
    /\ heap[2].dir = <<"x", "/", "x">>
    /\ subOut.ret = 2
    /\ cur = 2

\* fs.Sub of the store itself has been called with "."
C10_WitnessStore ==
    /\ subOut.op = "fs.Sub"
    /\ subOut.args = <<Dot>>
    /\ subOut.recv = 0
    /\ subOut.ret = 0
    /\ Len(heap) = 1

\* C11: a subtree derived at a valid dir B other than "." from a subFS with
\* prefix A over the store S is one wrapper directly over S with the prefix
\* A/B, the object fs.Sub(S, A/B) makes; no subFS wraps a subFS, at any
\* depth, and every method of it calls S with A/B/N.
C11_SingleLevel ==
    /\ \A n \in DOMAIN heap : heap[n].fsys = 0
    /\ (/\ subOut.op \in {"fs.Sub", "subFS.Sub"}
        /\ subOut.recv # 0
        /\ subOut.args # <<Dot>>
        /\ ValidPath(subOut.args[1])) =>
           LET A == heap[subOut.recv].dir
               B == subOut.args[1]
               direct == Sub(0, A \o Slash \o B)
           IN  /\ subOut.err = Nil
               /\ subOut.ret = Len(heap)
               /\ subOut.ret # subOut.recv
               /\ heap[subOut.ret].dir = A \o Slash \o B
               /\ direct.new
               /\ heap[subOut.ret] = [fsys |-> direct.fsys, dir |-> direct.dir]
    /\ SubMethodCalled =>
           \A c \in DOMAIN subOut.calls :
               subOut.calls[c].names =
                   [i \in DOMAIN subOut.args |-> Prefixed(heap[subOut.recv].dir, subOut.args[i])]

\* the subtree x of the subtree x has been derived: one object with prefix x/x
C11_Witness ==
    /\ subOut.op = "subFS.Sub"
    /\ subOut.args = <<S_x>>
    /\ subOut.recv = 1
    /\ heap[1] = [fsys |-> 0, dir |-> S_x]
    /\ subOut.ret = 2
    /\ heap[2] = [fsys |-> 0, dir |-> <<"x", "/", "x">>]

\* a method of the nested subtree has called the store with x/x/y/z
C11_WitnessCall ==
    /\ subOut.op = "Open"
    /\ subOut.args = <<S_yz>>
    /\ heap[subOut.recv].dir = <<"x", "/", "x">>
    /\ subOut.calls = <<[op |-> "Open", names |-> <<<<"x", "/", "x", "/", "y", "/", "z">>>>]>>

\* a match begins with D/, or is D itself
UnderPrefix(D, m) ==
    m = D \/ (Len(m) > Len(D) /\ SubSeq(m, 1, Len(D) + 1) = D \o Slash)

\* a match is D itself, or D/ followed by a name
NamedUnderPrefix(D, m) ==
    m = D \/ (Len(m) > Len(D) + 1 /\ SubSeq(m, 1, Len(D) + 1) = D \o Slash)

\* the match with the leading D/ removed; D itself is "."
Stripped(D, m) == IF m = D THEN Dot ELSE SubSeq(m, Len(D) + 2, Len(m))

IsInvalidGlobResult(err) == err.Err = "invalid result from inner fsys Glob"

\* The patterns of path.Match are sequences of terms: a character other
\* than "\" and "[", "\" with the character it escapes, or a class "[",
\* an optional "^", one range or more, "]".  A range is one character or two
\* with "-" between them, and a character of a range is not "-" or "]"
\* unless "\" escapes it.  Positions are counted from 1, and 0 is no position.

\* the position after the character of a range at position k
ClassChar(p, k) ==
    IF k > Len(p) \/ p[k] \in {"-", "]"} THEN 0
    ELSE IF p[k] # "\\" THEN k + 1
    ELSE IF k < Len(p) THEN k + 2
    ELSE 0

\* the position after the range at position k
RangeEnd(p, k) ==
    LET e == ClassChar(p, k)
    IN  IF e # 0 /\ e <= Len(p) /\ p[e] = "-" THEN ClassChar(p, e + 1) ELSE e

\* the positions at which a run of one range or more from position k may end
RECURSIVE RangeEnds(_, _)
RangeEnds(p, k) ==
    LET e == RangeEnd(p, k)
    IN  IF e = 0 THEN {} ELSE {e} \cup RangeEnds(p, e)

\* the positions after a term at position i
TermEnds(p, i) ==
    IF p[i] = "\\" THEN {i + 2} \cap (1..(Len(p) + 1))
    ELSE IF p[i] # "[" THEN {i + 1}
    ELSE LET k == IF i < Len(p) /\ p[i + 1] = "^" THEN i + 2 ELSE i + 1
         IN  {e + 1 : e \in {e \in RangeEnds(p, k) : e <= Len(p) /\ p[e] = "]"}}

\* the text of p from position i on is a sequence of terms
RECURSIVE Terms(_, _)
Terms(p, i) == i = Len(p) + 1 \/ (i <= Len(p) /\ \E j \in TermEnds(p, i) : Terms(p, j))

\* a pattern that is not a sequence of terms is malformed
Malformed(pattern) == ~Terms(pattern, 1)

\* C12 as claimed: a malformed pattern is rejected before the store is
\* called; otherwise the store is asked for D/pattern and Glob returns its
\* matches in order, each with the leading D/ removed, or, when a match does
\* not begin with D/ and is not D, the internal-consistency error and no list.
C12_GlobAsClaimed ==
    subOut.op = "Glob" =>
        LET D == heap[subOut.recv].dir
            pattern == subOut.args[1]
        IN  IF Malformed(pattern)
            THEN subOut.calls = <<>> /\ subOut.err # Nil /\ subOut.list = <<>>
            ELSE /\ subOut.calls = <<[op |-> "Glob", names |-> <<D \o Slash \o pattern>>]>>
                 /\ IF \A i \in DOMAIN subOut.raw : UnderPrefix(D, subOut.raw[i])
                    THEN /\ subOut.list = [i \in DOMAIN subOut.raw |-> Stripped(D, subOut.raw[i])]
                         /\ ~IsInvalidGlobResult(subOut.err)
                    ELSE IsInvalidGlobResult(subOut.err) /\ subOut.list = <<>>

\* C12 as amended: a malformed pattern is rejected before the store is
\* called; the pattern "." returns the list of "." alone without a call to
\* the store; otherwise the store is asked for D/pattern and Glob returns
\* its matches in order, each with the leading D/ removed (D itself as "."),
\* and the store's error; when a match is neither D nor D/ followed by a
\* name, Glob returns the internal-consistency error and no list.
C12_GlobStripped ==
    subOut.op = "Glob" =>
        LET D == heap[subOut.recv].dir
            pattern == subOut.args[1]
        IN  IF Malformed(pattern)
            THEN subOut.calls = <<>> /\ subOut.err # Nil /\ subOut.list = <<>>
            ELSE IF pattern = Dot
            THEN subOut.calls = <<>> /\ subOut.err = Nil /\ subOut.list = <<Dot>>
            ELSE /\ subOut.calls = <<[op |-> "Glob", names |-> <<D \o Slash \o pattern>>]>>
                 /\ IF \A i \in DOMAIN subOut.raw : NamedUnderPrefix(D, subOut.raw[i])
                    THEN /\ subOut.list = [i \in DOMAIN subOut.raw |-> Stripped(D, subOut.raw[i])]
                         /\ (subOut.err = Nil) = (subOut.storeErr = Nil)
                         /\ ~IsInvalidGlobResult(subOut.err)
                    ELSE IsInvalidGlobResult(subOut.err) /\ subOut.list = <<>>

\* Glob("*") under the prefix x: the store returned x/y/z and x, Glob y/z and "."
C12_Witness ==
    /\ subOut.op = "Glob"
    /\ subOut.args = <<G_star>>
    /\ heap[subOut.recv].dir = S_x
    /\ subOut.raw = <<<<"x", "/", "y", "/", "z">>, <<"x">>>>
    /\ subOut.list = <<S_yz, Dot>>
    /\ subOut.err = Nil

\* the store returned a name of the sibling xy: Glob failed and returned no list
C12_WitnessForeign ==
    /\ subOut.op = "Glob"
    /\ heap[subOut.recv].dir = S_x
    /\ subOut.raw = <<<<"x", "/", "y">>, <<"x", "y", "/", "z">>>>
    /\ IsInvalidGlobResult(subOut.err)
    /\ subOut.list = <<>>

\* a is byte-wise at most b: a is a prefix of b, or the first byte that
\* differs is smaller in a
BytewiseLeq(a, b) ==
    \E k \in 0..Len(a) :
        /\ k <= Len(b)
        /\ \A i \in 1..k : a[i] = b[i]
        /\ \/ k = Len(a)
           \/ (k < Len(b) /\ ByteOf(a[k + 1]) < ByteOf(b[k + 1]))

Occurrences(list, x) == Cardinality({i \in DOMAIN list : list[i] = x})

\* C13: ReadDir of the file system of a Root returns the entries the
\* platform enumerated, whatever their order, sorted byte-wise ascending by
\* name, each raw entry exactly once, also when the listing ended with a
\* read error and is partial.
C13_ReadDirSorted ==
    \A p \in Procs :
        LET c == call[p] IN
        (c.pc = "done" /\ c.fs = "ReadDir") =>
            /\ \A i \in 1..(Len(c.dirs) - 1) : BytewiseLeq(c.dirs[i], c.dirs[i + 1])
            /\ Len(c.dirs) = Len(c.raw)
            /\ \A x \in EntryNames : Occurrences(c.dirs, x) = Occurrences(c.raw, x)
            /\ ~c.touched => c.dirs = <<>>

\* the platform listed ab, a., B and failed before a: ReadDir returned the
\* read error and B, a., ab
C13_Witness ==
    /\ call["g1"].pc = "done"
    /\ call["g1"].fs = "ReadDir"
    /\ call["g1"].raw = <<E_ab, E_aDot, E_B>>
    /\ call["g1"].dirs = <<E_B, E_aDot, E_ab>>
    /\ call["g1"].result.Err = "EIO"

\* a complete listing in descending order has been returned ascending
C13_WitnessAll ==
    /\ call["g1"].pc = "done"
    /\ call["g1"].fs = "ReadDir"
    /\ call["g1"].raw = <<E_ab, E_aDot, E_a, E_B>>
    /\ call["g1"].dirs = <<E_B, E_a, E_aDot, E_ab>>
    /\ call["g1"].result = Success

----------------------------------------------------------------------------
(* Claims about splitPathInRoot *)

\* the offsets at which a component of s starts
CompStarts(s) == {i \in DOMAIN s : s[i] # "/" /\ (i = 1 \/ s[i - 1] = "/")}

\* the component of s that starts at i
CompAt(s, i) ==
    LET e == CHOOSE e \in i..Len(s) :
                 /\ \A k \in i..e : s[k] # "/"
                 /\ (e = Len(s) \/ s[e + 1] = "/")
    IN  SubSeq(s, i, e)

\* the n-th element of a set of numbers
Nth(S, n) == CHOOSE x \in S : Cardinality({y \in S : y < x}) = n - 1

\* the separator-delimited components of s, in order
Components(s) ==
    [n \in 1..Cardinality(CompStarts(s)) |-> CompAt(s, Nth(CompStarts(s), n))]

\* comps without its "." components, but for a final one when keepLast
WithoutDots(comps, keepLast) ==
    LET keep == {n \in DOMAIN comps : comps[n] # Dot \/ (keepLast /\ n = Len(comps))}
    IN  [m \in 1..Cardinality(keep) |-> comps[Nth(keep, m)]]

\* the separators after the last component of s
TrailingSeparators(s) ==
    LET last == CHOOSE i \in DOMAIN s : s[i] # "/" /\ \A k \in (i + 1)..Len(s) : s[k] = "/"
    IN  SubSeq(s, last + 1, Len(s))

RECURSIVE JoinParts(_)
JoinParts(parts) ==
    IF parts = <<>> THEN Empty
    ELSE IF Len(parts) = 1 THEN parts[1]
    ELSE parts[1] \o Slash \o JoinParts(Tail(parts))

\* C14: splitPathInRoot(s, prefix, suffix) of a non-empty s that does not
\* start with a separator returns prefix, the components of s in order
\* without the "." components other than a final one when suffix is empty,
\* and suffix; the separators after the last component are returned as
\* suffixSep; splitting the result joined by "/" gives the same components;
\* an empty s and an s that starts with a separator give an error and no
\* components.
C14_SplitComponents ==
    split.called =>
        IF split.s = Empty \/ split.s[1] = "/"
        THEN /\ split.err # ""
             /\ split.parts = <<>>
             /\ split.suffixSep = Empty
        ELSE LET comps == WithoutDots(Components(split.s), split.suffix = <<>>)
             IN  /\ split.err = ""
                 /\ split.parts = split.prefix \o comps \o split.suffix
                 /\ split.suffixSep = TrailingSeparators(split.s)
                 /\ LET again == splitPathInRoot(JoinParts(comps), <<>>, <<>>)
                    IN  comps # <<>> => (again.err = "" /\ again.parts = comps)

\* a/./b/c has been split into a, b, c, as a/b/c is, and joins to a/b/c
C14_Witness ==
    /\ split.called
    /\ split.s = A_aDotbc
    /\ split.prefix = <<>>
    /\ split.suffix = <<>>
    /\ split.parts = <<<<"a">>, <<"b">>, <<"c">>>>
    /\ split.parts = splitPathInRoot(A_abc, <<>>, <<>>).parts
    /\ JoinParts(split.parts) = A_abc

\* a final "." followed by separators has been dropped before a suffix
C14_WitnessSuffix ==
    /\ split.called
    /\ split.s = <<"a", "/", ".", "/">>
    /\ split.prefix = <<<<"p">>>>
    /\ split.suffix = <<<<"q">>>>
    /\ split.parts = <<<<"p">>, <<"a">>, <<"q">>>>
    /\ split.suffixSep = Slash

----------------------------------------------------------------------------
(* Claims about symlinks made through a subFS *)

\* C15: after Symlink(old, new) of a subFS with prefix D has succeeded for
\* valid names old and new, ReadLink(new) of a subFS with that prefix
\* returns old, the target as the caller supplied it, without the prefix.
C15_SymlinkRoundTrip ==
    (subOut.op = "ReadLink" /\ subOut.err = Nil) =>
        LET D == heap[subOut.recv].dir
            l == stored[Prefixed(D, subOut.args[1])]
        IN  (heap[l.by].dir = D /\ l.new = subOut.args[1]) => subOut.target = l.old

====
